---- MODULE Spec2Model ----
(***************************************************************************)
(* Model of the live football dashboard (tibom2020/Pro-Football-v2).       *)
(*                                                                         *)
(*   ApiSpec   - services/api: enforceRateLimit, safeFetch and the three   *)
(*               typed fetches, one call at a time, on an event loop with  *)
(*               a wall clock (Date.now) and timers.                       *)
(*   RaceSpec  - the same operations run by two overlapping callers.       *)
(*   ParseSpec - services/api: parseStats, applied to raw stat mappings.   *)
(*   OddsSpec  - LiveStatsTable: getLatestMainMarketOdd, applied to the    *)
(*               odds history the Dashboard hands to the table.            *)
(*   LedgerSpec   - TicketManager and BetHistory over 'betTickets'.        *)
(*   SlipSpec     - calculateProfitLoss and the profit summaries.          *)
(*   PressureSpec - calculateAPIScore and apiChartData.                    *)
(*   DashSpec     - Dashboard: the polling refresh cycles and the AI       *)
(*                  insight; FairDashSpec adds fairness of the fetches.    *)
(*   WeekSpec     - BetHistory: the period filter.                         *)
(*   PredictSpec  - the Dashboard variant that keeps an analysis history.  *)
(*   MomentumSpec - the score and tension level of each chart variant.     *)
(*                                                                         *)
(* Time is in milliseconds.  A timer never fires early: a sleeper resumes  *)
(* at any clock value at or after its deadline.                            *)
(***************************************************************************)
EXTENDS Integers, Sequences, FiniteSets, TLC

VARIABLES now, lastApiCallTime, calls, requests, started,
          statsInput, parsedStats,
          oddsHistory, latestOdds, table,
          ledger, slip, pressure, dash, week, predict, momentum

apiVars   == <<now, lastApiCallTime, calls, requests, started>>
parseVars == <<statsInput, parsedStats>>
oddsVars  == <<oddsHistory, latestOdds, table>>
restVars  ==
  <<ledger, slip, pressure, dash, week, predict, momentum>>
nonApiVars == <<statsInput, parsedStats, oddsHistory, latestOdds, table,
                ledger, slip, pressure, dash, week, predict, momentum>>
vars      == <<now, lastApiCallTime, calls, requests, started,
               statsInput, parsedStats, oddsHistory, latestOdds, table,
               ledger, slip, pressure, dash, week, predict, momentum>>

\* a component that is not part of the specification at hand
Off == [phase |-> "off"]
RestIdle ==
  /\ ledger = Off /\ slip = Off /\ pressure = Off /\ dash = Off /\ week = Off
  /\ predict = Off /\ momentum = Off

(***************************************************************************)
(* Bounds                                                                  *)
(***************************************************************************)
MaxCalls   == 2
StartTime  == 100000
MaxTime    == 101000
Latency    == 1000
MaxStrLen  == 2
MaxHist    == 3
MaxTickets == 2
MaxSlip    == 2
MaxCycles  == 2
MaxAI      == 2

(***************************************************************************)
(* services/api constants                                                  *)
(***************************************************************************)
MIN_API_CALL_INTERVAL  == 45 * 1000
MAX_RETRIES            == 3
INITIAL_RETRY_DELAY_MS == 2000

Callers == DOMAIN calls
Fns     == {"getInPlayEvents", "getMatchDetails", "getMatchOdds"}
Tokens  == {"DEMO_MODE", "", "tok"}
EventId == "E1"

Pow2(n) == IF n = 0 THEN 1 ELSE IF n = 1 THEN 2 ELSE IF n = 2 THEN 4
           ELSE IF n = 3 THEN 8 ELSE 16

(***************************************************************************)
(* HTTP responses.  A body is its leading white space and a document; the  *)
(* documents are the JSON texts the endpoints can answer with, plus one    *)
(* text that is not JSON.                                                  *)
(***************************************************************************)
Statuses == {200, 403, 429, 500}
Docs     == {"", "<html>", "null", "success1", "successStr1", "success0",
             "noArray", "noName"}
Bodies   == {b \in [lead : 0..1, doc : Docs] : b.lead = 0 \/ b.doc \in {"", "null"}}

DocLen(d)     == IF d = "" THEN 0 ELSE 1
TextLen(b)    == b.lead + DocLen(b.doc)
TrimLen(b)    == DocLen(b.doc)
ResponseOk(s) == s >= 200 /\ s <= 299

Ev(id, league) == [id |-> id, league |-> league]
\* parsed JSON: success is the number 1/0 ("1n","0n"), the string "1"/"0"
\* ("1s","0s") or absent; results is absent, an array or a non-array object
Data(success, rkind, items) ==
  [isNull |-> FALSE, success |-> success, rkind |-> rkind, items |-> items]
NullData == [isNull |-> TRUE, success |-> "absent", rkind |-> "absent", items |-> <<>>]
Thrown   == [kind |-> "throw"]
Value(v) == [kind |-> "value", val |-> v]

\* JSON.parse: the parsed value of a document, or a SyntaxError
JsonParse(b) ==
  CASE b.doc = "null"        -> Value(NullData)
    [] b.doc = "success1"    -> Value(Data("1n", "array", <<Ev("E1", "real"), Ev("E2", "esoccer"), Ev("E3", "absent")>>))
    [] b.doc = "successStr1" -> Value(Data("1s", "array", <<Ev("E2", "real")>>))
    [] b.doc = "success0"    -> Value(Data("0n", "absent", <<>>))
    [] b.doc = "noArray"     -> Value(Data("1n", "object", <<>>))
    [] b.doc = "noName"      -> Value(Data("1n", "array", <<Ev("E1", "noName")>>))
    [] OTHER                 -> Thrown

(***************************************************************************)
(* enforceRateLimit / safeFetch                                            *)
(***************************************************************************)
\* enforceRateLimit: how long a caller that reads the clock at t sleeps
WaitTime(t, last) ==
  IF t - last < MIN_API_CALL_INTERVAL THEN MIN_API_CALL_INTERVAL - (t - last) ELSE 0

ShouldRetry_OffByOne(status, retries) == status = 429 /\ retries <= MAX_RETRIES

ShouldRetry_Also403(status, retries) == status \in {429, 403} /\ retries < MAX_RETRIES

\* safeFetch: a 429 below the retry cap is retried
ShouldRetry(status, retries) == status = 429 /\ retries < MAX_RETRIES

\* safeFetch: the backoff before retry number retries + 1
RetryDelay(retries) == INITIAL_RETRY_DELAY_MS * Pow2(retries)

\* safeFetch: what a response that is not retried makes the call settle with
SafeFetchReturn(status, body) ==
  IF status = 403 THEN Thrown
  ELSE IF status = 429 THEN Thrown
  ELSE IF ~ResponseOk(status) THEN Thrown
  ELSE IF TextLen(body) = 0 \/ TrimLen(body) = 0 THEN Value(NullData)
  ELSE JsonParse(body)

(***************************************************************************)
(* getInPlayEvents / getMatchDetails / getMatchOdds                        *)
(***************************************************************************)
EmptyList    == [kind |-> "list", items |-> <<>>]
List(items)  == [kind |-> "list", items |-> items]
Null         == [kind |-> "null"]
Raised       == [kind |-> "raised"]
Pending      == [kind |-> "pending"]

NoData(f) == IF f = "getInPlayEvents" THEN EmptyList ELSE Null

RECURSIVE FilterSeq(_, _)
FilterSeq(s, keep) ==
  IF s = <<>> THEN <<>>
  ELSE IF Head(s) \in keep THEN <<Head(s)>> \o FilterSeq(Tail(s), keep)
  ELSE FilterSeq(Tail(s), keep)

Elems(s) == {s[i] : i \in DOMAIN s}

\* the body of each function's try block, given what safeFetch settled with;
\* Thrown stands for any exception raised inside the block
InPlayTry(out) ==
  IF out.kind = "throw" THEN Thrown
  ELSE LET data == out.val IN
    IF data.isNull \/ data.success \notin {"1n", "1s"} THEN Value(EmptyList)
    ELSE IF data.rkind = "absent" THEN Value(EmptyList)
    ELSE IF data.rkind = "object" THEN Thrown
    ELSE IF \E e \in Elems(data.items) : e.league = "noName" THEN Thrown
    ELSE Value(List(FilterSeq(data.items, {e \in Elems(data.items) : e.league = "real"})))

DetailsTry(out) ==
  IF out.kind = "throw" THEN Thrown
  ELSE LET data == out.val IN
    IF data.isNull \/ data.rkind = "absent" THEN Value(Null)
    ELSE IF data.rkind = "object" THEN Thrown
    ELSE IF \E i \in DOMAIN data.items : data.items[i].id = EventId
         THEN Value([kind |-> "event",
                     ev |-> data.items[CHOOSE i \in DOMAIN data.items :
                              /\ data.items[i].id = EventId
                              /\ \A j \in 1..(i - 1) : data.items[j].id # EventId]])
         ELSE Value(Null)

OddsTry(out) ==
  IF out.kind = "throw" THEN Thrown
  ELSE LET data == out.val IN
    IF data.isNull \/ data.success \in {"0n", "0s"} THEN Value(Null)
    ELSE Value([kind |-> "odds", data |-> data])

Catch_Rethrow(f, tried) == IF tried.kind = "throw" THEN Raised ELSE tried.val

\* try { ... } catch (error) { return <no data>; }
Catch(f, tried) == IF tried.kind = "throw" THEN NoData(f) ELSE tried.val

ApiResult(f, out) ==
  CASE f = "getInPlayEvents" -> Catch(f, InPlayTry(out))
    [] f = "getMatchDetails" -> Catch(f, DetailsTry(out))
    [] OTHER                 -> Catch(f, OddsTry(out))

ShortCircuit_OddsUnguarded(f, token) ==
  \/ token = "DEMO_MODE" /\ f # "getMatchOdds"
  \/ f = "getInPlayEvents" /\ token = ""

\* the guards in front of the try block
ShortCircuit(f, token) ==
  \/ token = "DEMO_MODE"
  \/ f = "getInPlayEvents" /\ token = ""

(***************************************************************************)
(* parseStats                                                              *)
(*                                                                         *)
(* A string is a sequence of characters; a number is an integer or NaN.    *)
(***************************************************************************)
StatKeys == {"attacks", "dangerous_attacks", "on_target", "off_target",
             "corners", "yellowcards", "redcards"}
Digits   == {"0", "7"}
Chars    == {"7", "a", "-", " "}

Num(n)   == [nan |-> FALSE, v |-> n]
NaN      == [nan |-> TRUE, v |-> 0]

DigitVal(ch) == IF ch = "7" THEN 7 ELSE 0

RECURSIVE SkipSpaces(_)
SkipSpaces(str) ==
  IF str # <<>> /\ Head(str) = " " THEN SkipSpaces(Tail(str)) ELSE str

\* the longest prefix of digits
RECURSIVE DigitPrefix(_)
DigitPrefix(str) ==
  IF str # <<>> /\ Head(str) \in Digits
  THEN <<Head(str)>> \o DigitPrefix(Tail(str)) ELSE <<>>

RECURSIVE DigitsValue(_, _)
DigitsValue(ds, acc) ==
  IF ds = <<>> THEN acc ELSE DigitsValue(Tail(ds), 10 * acc + DigitVal(Head(ds)))

\* parseInt(string): leading white space is skipped, an optional sign and the
\* leading digits are read, whatever follows is ignored; no digit gives NaN
ParseInt(str) ==
  LET t    == SkipSpaces(str)
      neg  == t # <<>> /\ Head(t) = "-"
      body == IF neg THEN Tail(t) ELSE t
      ds   == DigitPrefix(body)
  IN IF ds = <<>> THEN NaN
     ELSE Num(IF neg THEN 0 - DigitsValue(ds, 0) ELSE DigitsValue(ds, 0))

\* arr[i] || '0'
OrZero(str) == IF str = <<>> THEN <<"0">> ELSE str

Absent        == [present |-> FALSE, arr |-> <<>>]
Present(arr)  == [present |-> TRUE, arr |-> arr]
UndefinedStats == [defined |-> FALSE, keys |-> [k \in StatKeys |-> Absent]]

\* const parse = (key) => ...
ParseKey(stats, key) ==
  LET e == IF stats.defined THEN stats.keys[key] ELSE Absent IN
  IF e.present /\ Len(e.arr) = 2
  THEN <<ParseInt(OrZero(e.arr[1])), ParseInt(OrZero(e.arr[2]))>>
  ELSE <<Num(0), Num(0)>>

ParseStats(stats) == [k \in StatKeys |-> ParseKey(stats, k)]

\* the raw values a statistic can arrive with
RECURSIVE StringsOfLen(_)
StringsOfLen(n) ==
  IF n = 0 THEN {<<>>}
  ELSE {<<ch>> \o str : ch \in Chars, str \in StringsOfLen(n - 1)}

Strings   == UNION {StringsOfLen(n) : n \in 0..MaxStrLen}
RawArrays == {<<>>} \cup {<<a>> : a \in Strings}
               \cup {<<a, b>> : a \in Strings, b \in Strings}
               \cup {<<a, a, a>> : a \in Strings}
RawEntries == {Absent} \cup {Present(arr) : arr \in RawArrays}
RestEntries == {Absent, Present(<<<<"7">>, <<"0">>>>)}

\* stats mappings: undefined, or one key carries any raw value and the
\* others a common one
StatsInputs ==
  {UndefinedStats} \cup
  {[defined |-> TRUE, keys |-> [x \in StatKeys |-> IF x = k THEN e ELSE r]] :
     k \in StatKeys, e \in RawEntries, r \in RestEntries}

Unparsed       == [done |-> FALSE]
Parsed(result) == [done |-> TRUE, stats |-> result]

(***************************************************************************)
(* LiveStatsTable: getLatestMainMarketOdd                                  *)
(*                                                                         *)
(* A quote point is [minute, handicap]; the function returns one of the    *)
(* history's objects, modelled by its position (0 for null).  A minute is  *)
(* a number, NaN included (parseInt of a missing time_str).                *)
(***************************************************************************)
NaNMinute == 0 - 1
Minutes   == {0, 3, 10, 12, 14, NaNMinute}
\* handicap: string, never empty; "1" is a key that object enumeration
\* treats as an array index
Handicaps == {"0.5", "0.75", "1"}
Points    == [minute : Minutes, handicap : Handicaps]

\* a >= b on numbers: false as soon as one side is NaN
Ge(a, b) == a # NaNMinute /\ b # NaNMinute /\ a >= b

\* Math.max(0, latestMinute - 7)
RelevantTimeThreshold(latestMinute) ==
  IF latestMinute = NaNMinute THEN NaNMinute
  ELSE IF latestMinute - 7 > 0 THEN latestMinute - 7 ELSE 0

RecentOdds_Unfiltered(history, threshold) == history

\* history.filter(o => o.minute >= relevantTimeThreshold)
RECURSIVE RecentOdds(_, _)
RecentOdds(history, threshold) ==
  IF history = <<>> THEN <<>>
  ELSE IF Ge(Head(history).minute, threshold)
       THEN <<Head(history)>> \o RecentOdds(Tail(history), threshold)
       ELSE RecentOdds(Tail(history), threshold)

\* the reduce: how often each handicap occurs among the recent odds
RECURSIVE HandicapCounts(_)
HandicapCounts(recent) ==
  IF recent = <<>> THEN [h \in Handicaps |-> 0]
  ELSE LET acc == HandicapCounts(Tail(recent))
       IN [acc EXCEPT ![Head(recent).handicap] = acc[Head(recent).handicap] + 1]

\* property keys that are array indices ("1") are enumerated first, in
\* ascending numeric order; the other keys follow in insertion order
IsIndexKey(h) == h = "1"

RECURSIVE InsertionOrder(_, _)
InsertionOrder(recent, seen) ==
  IF recent = <<>> THEN <<>>
  ELSE IF Head(recent).handicap \in seen \/ IsIndexKey(Head(recent).handicap)
       THEN InsertionOrder(Tail(recent), seen)
       ELSE <<Head(recent).handicap>>
              \o InsertionOrder(Tail(recent), seen \cup {Head(recent).handicap})

\* for (const handicap in handicapCounts): the enumeration order
KeyOrder(recent) ==
  (IF \E i \in DOMAIN recent : IsIndexKey(recent[i].handicap) THEN <<"1">> ELSE <<>>)
    \o InsertionOrder(recent, {})

\* maxCount is never raised, so every key with a count replaces the candidate
PickMain_KeepsMaxCount(order, counts, mainHandicap, maxCount) ==
  IF order = <<>> THEN mainHandicap ELSE order[Len(order)]

\* the loop body: a strictly larger count replaces the candidate
RECURSIVE PickMain(_, _, _, _)
PickMain(order, counts, mainHandicap, maxCount) ==
  IF order = <<>> THEN mainHandicap
  ELSE IF counts[Head(order)] > maxCount
       THEN PickMain(Tail(order), counts, Head(order), counts[Head(order)])
       ELSE PickMain(Tail(order), counts, mainHandicap, maxCount)

LatestIndexOf_First(history, handicap) ==
  IF \E i \in DOMAIN history : history[i].handicap = handicap
  THEN CHOOSE i \in DOMAIN history :
         /\ history[i].handicap = handicap
         /\ \A j \in DOMAIN history : history[j].handicap = handicap => j >= i
  ELSE 0

\* for (i = history.length - 1; i >= 0; i--) if (history[i].handicap === ...)
LatestIndexOf(history, handicap) ==
  IF \E i \in DOMAIN history : history[i].handicap = handicap
  THEN CHOOSE i \in DOMAIN history :
         /\ history[i].handicap = handicap
         /\ \A j \in DOMAIN history : history[j].handicap = handicap => j <= i
  ELSE 0

NoHandicap == ""

GetLatestMainMarketOdd(history) ==
  IF Len(history) = 0 THEN 0
  ELSE LET lastEntry  == Len(history)
           threshold  == RelevantTimeThreshold(history[lastEntry].minute)
           recentOdds == RecentOdds(history, threshold)
       IN IF Len(recentOdds) = 0 THEN lastEntry
          ELSE LET mainHandicap == PickMain(KeyOrder(recentOdds),
                                            HandicapCounts(recentOdds), NoHandicap, 0)
                   found == LatestIndexOf(history, mainHandicap)
               IN IF mainHandicap # NoHandicap /\ found # 0 THEN found ELSE lastEntry

\* the oddsHistory prop of the table: an array, or missing (undefined)
MissingProp      == [given |-> FALSE, items |-> <<>>]
ArrayProp(items) == [given |-> TRUE, items |-> items]

\* what a render yields in place of a quote when the function throws
RenderError == 0 - 1

MainMarketOddOf_NoGuard(prop) ==
  IF ~prop.given THEN RenderError
  ELSE IF Len(prop.items) = 0 THEN 1 ELSE GetLatestMainMarketOdd(prop.items)

\* getLatestMainMarketOdd(history): if (!history || history.length === 0)
MainMarketOddOf(prop) ==
  IF ~prop.given THEN 0 ELSE GetLatestMainMarketOdd(prop.items)

\* the variant of the table that takes the last array entry
LastEntryOddOf(prop) ==
  IF ~prop.given \/ Len(prop.items) = 0 THEN 0 ELSE Len(prop.items)

\* the table: not rendered yet, or rendered from a missing / an array prop;
\* lastOdds is the quote of the last-entry variant
Unmounted == [prop |-> "unmounted", lastOdds |-> 0]
Mounted(prop) ==
  [prop |-> IF prop.given THEN "array" ELSE "missing", lastOdds |-> LastEntryOddOf(prop)]

(***************************************************************************)
(* ApiSpec: callers of the three fetches on one event loop                 *)
(***************************************************************************)
NoBody   == [lead |-> 0, doc |-> ""]
IdleCall == [pc |-> "idle", fn |-> "none", token |-> "", retries |-> 0,
             wakeAt |-> 0, sent |-> 0, delay |-> 0, net |-> FALSE,
             status |-> 0, body |-> NoBody, result |-> Pending]

ApiInit(callers) ==
  /\ now = StartTime
  /\ lastApiCallTime = 0
  /\ calls = [c \in callers |-> IdleCall]
  /\ requests = <<>>
  /\ started = 0
  /\ statsInput = UndefinedStats /\ parsedStats = Unparsed
  /\ oddsHistory = <<>> /\ latestOdds = 0 /\ table = Unmounted
  /\ RestIdle

\* the times of the two most recent requests sent to the proxy, oldest first
Sent(log, t) == IF Len(log) < 2 THEN Append(log, t) ELSE <<log[2], t>>

\* safeFetch(url, retries) up to its first suspension: enforceRateLimit reads
\* the clock and either sleeps or stamps lastApiCallTime, after which the
\* request is sent
EnterSafeFetch(c, rec) ==
  LET w == WaitTime(now, lastApiCallTime) IN
  IF w > 0
  THEN /\ calls' = [calls EXCEPT ![c] = [rec EXCEPT !.pc = "rateWait", !.wakeAt = now + w]]
       /\ UNCHANGED <<lastApiCallTime, requests>>
  ELSE /\ lastApiCallTime' = now
       /\ requests' = Sent(requests, now)
       /\ calls' = [calls EXCEPT ![c] = [rec EXCEPT !.pc = "fetching", !.sent = rec.sent + 1]]

\* a caller invokes getInPlayEvents / getMatchDetails / getMatchOdds
StartCall(c, tokens) ==
  /\ calls[c].pc = "idle"
  /\ started < MaxCalls
  /\ started' = started + 1
  /\ \E f \in Fns, t \in tokens :
       LET rec == [IdleCall EXCEPT !.fn = f, !.token = t] IN
       IF ShortCircuit(f, t)
       THEN /\ calls' = [calls EXCEPT ![c] = [rec EXCEPT !.pc = "done", !.result = NoData(f)]]
            /\ UNCHANGED <<lastApiCallTime, requests>>
       ELSE EnterSafeFetch(c, rec)
  /\ UNCHANGED now
  /\ UNCHANGED nonApiVars

\* the rate-limit timer fires: enforceRateLimit stamps the clock and returns,
\* safeFetch sends the request
RateLimitWake(c) ==
  /\ calls[c].pc = "rateWait"
  /\ now >= calls[c].wakeAt
  /\ lastApiCallTime' = now
  /\ requests' = Sent(requests, now)
  /\ calls' = [calls EXCEPT ![c].pc = "fetching", ![c].wakeAt = 0,
                             ![c].sent = calls[c].sent + 1]
  /\ UNCHANGED <<now, started>>
  /\ UNCHANGED nonApiVars

\* the proxy answers: the rest of safeFetch's try block and, unless the call
\* backs off for a retry, the rest of the calling function
Respond(c, statuses, bodies) ==
  /\ calls[c].pc = "fetching"
  /\ \E s \in statuses, b \in bodies :
       /\ ResponseOk(s) \/ b = NoBody
       /\ LET rec == [calls[c] EXCEPT !.status = s, !.body = b, !.net = FALSE] IN
          IF ShouldRetry(s, rec.retries)
          THEN calls' = [calls EXCEPT ![c] =
                  [rec EXCEPT !.pc = "backoff", !.delay = RetryDelay(rec.retries),
                              !.wakeAt = now + RetryDelay(rec.retries)]]
          ELSE calls' = [calls EXCEPT ![c] =
                  [rec EXCEPT !.pc = "done",
                              !.result = ApiResult(rec.fn, SafeFetchReturn(s, b))]]
  /\ UNCHANGED <<now, lastApiCallTime, requests, started>>
  /\ UNCHANGED nonApiVars

\* fetch rejects (network failure): safeFetch rethrows
NetworkFailure(c) ==
  /\ calls[c].pc = "fetching"
  /\ calls' = [calls EXCEPT ![c].pc = "done", ![c].net = TRUE, ![c].status = 0,
                             ![c].body = NoBody,
                             ![c].result = ApiResult(calls[c].fn, Thrown)]
  /\ UNCHANGED <<now, lastApiCallTime, requests, started>>
  /\ UNCHANGED nonApiVars

\* the backoff timer fires: return safeFetch(url, retries + 1)
BackoffWake(c) ==
  /\ calls[c].pc = "backoff"
  /\ now >= calls[c].wakeAt
  /\ EnterSafeFetch(c, [calls[c] EXCEPT !.retries = calls[c].retries + 1,
                                        !.wakeAt = 0, !.delay = 0])
  /\ UNCHANGED <<now, started>>
  /\ UNCHANGED nonApiVars

\* the caller takes the settled value
Return(c) ==
  /\ calls[c].pc = "done"
  /\ calls' = [calls EXCEPT ![c] = IdleCall]
  /\ UNCHANGED <<now, lastApiCallTime, requests, started>>
  /\ UNCHANGED nonApiVars

Sleepers == {c \in Callers : calls[c].pc \in {"rateWait", "backoff"} /\ calls[c].wakeAt > now}

\* the clock advances: by a network latency while the horizon allows, or up
\* to the deadline of a pending timer
AdvanceTime ==
  /\ \/ now + Latency <= MaxTime /\ now' = now + Latency
     \/ \E c \in Sleepers : now' = calls[c].wakeAt
  /\ UNCHANGED <<lastApiCallTime, calls, requests, started>>
  /\ UNCHANGED nonApiVars

\* one caller at a time, every response body
ApiNext ==
  \/ \E c \in Callers : StartCall(c, Tokens)
  \/ \E c \in Callers : RateLimitWake(c)
  \/ \E c \in Callers : Respond(c, Statuses, Bodies)
  \/ \E c \in Callers : NetworkFailure(c)
  \/ \E c \in Callers : BackoffWake(c)
  \/ \E c \in Callers : Return(c)
  \/ AdvanceTime

ApiSpec == ApiInit({1}) /\ [][ApiNext]_vars

\* overlapping callers (refresh cycles, the in-play list) with a real token;
\* the proxy answers 200 with a result document or 429, or the fetch fails
RaceCallers  == {1, 2}
RaceStatuses == {200, 429}
RaceBodies   == {NoBody, [lead |-> 0, doc |-> "success1"]}

RaceNext ==
  \/ \E c \in Callers : StartCall(c, {"tok"})
  \/ \E c \in Callers : RateLimitWake(c)
  \/ \E c \in Callers : Respond(c, RaceStatuses, RaceBodies)
  \/ \E c \in Callers : NetworkFailure(c)
  \/ \E c \in Callers : BackoffWake(c)
  \/ \E c \in Callers : Return(c)
  \/ AdvanceTime

RaceSpec == ApiInit(RaceCallers) /\ [][RaceNext]_vars

\* the callers' progress is fair: a due timer fires, the clock moves on, and
\* a pending fetch settles (with a response or a rejection)
FairApiSpec ==
  /\ ApiSpec
  /\ WF_vars(AdvanceTime)
  /\ WF_vars(RateLimitWake(1))
  /\ WF_vars(BackoffWake(1))
  /\ WF_vars(Respond(1, Statuses, Bodies) \/ NetworkFailure(1))

(***************************************************************************)
(* Claims about the odds/match client                                      *)
(***************************************************************************)
InFlight(c) == calls[c].pc \in {"rateWait", "fetching", "backoff"}
Done(c)     == calls[c].pc = "done"

\* C1: any two requests sent to the proxy are at least MIN_API_CALL_INTERVAL
\* (45 s) apart, for every interleaving of callers.  Requests are sent in
\* clock order, so it is stated of each request and the one before it.
C1_MinSpacing ==
  Len(requests) = 2 => requests[2] - requests[1] >= MIN_API_CALL_INTERVAL

\* C2: a call that keeps receiving 429 backs off 2000, 4000, 8000 ms before
\* retries 1, 2, 3, sends at most 1 + 3 requests, fails (its caller gets "no
\* data") on the 429 that answers the last retry, and always terminates.
C2_RetrySafe ==
  \A c \in Callers :
    /\ calls[c].retries <= 3 /\ calls[c].sent <= 4
    /\ calls[c].pc = "backoff" =>
         /\ calls[c].status = 429
         /\ calls[c].retries = 0 => calls[c].delay = 2000
         /\ calls[c].retries = 1 => calls[c].delay = 4000
         /\ calls[c].retries = 2 => calls[c].delay = 8000
         /\ calls[c].retries < 3
         /\ calls[c].wakeAt >= requests[Len(requests)] + calls[c].delay
    /\ (Done(c) /\ calls[c].status = 429) =>
         /\ calls[c].retries = 3 /\ calls[c].sent = 4
         /\ calls[c].result = NoData(calls[c].fn)

C2_RetryTerminates ==
  /\ []C2_RetrySafe
  /\ \A c \in {1} : InFlight(c) ~> Done(c)

C2_Witness ==
  \E c \in Callers : Done(c) /\ calls[c].status = 429 /\ calls[c].sent = 4

\* C3: a 403, or any other non-2xx status that is not 429, fails the call at
\* once, whatever its retry count: the step that handles the response
\* settles the call with "no data", sends nothing and schedules no retry.
C3_FailFast ==
  [][\A c \in {1} :
       (/\ calls[c].pc = "fetching"
        /\ calls'[c].pc # "fetching"
        /\ ~calls'[c].net
        /\ calls'[c].status # 429 /\ ~ResponseOk(calls'[c].status))
       => /\ calls'[c].pc = "done"
          /\ calls'[c].result = NoData(calls[c].fn)
          /\ calls'[c].sent = calls[c].sent
          /\ calls'[c].sent = calls[c].retries + 1
          /\ requests' = requests]_vars

C3_Witness ==
  \E c \in Callers : Done(c) /\ calls[c].status = 403 /\ calls[c].retries = 2
                       /\ calls[c].sent = 3

\* C4: the three fetches never raise; a network failure, a 403, a non-2xx
\* status, exhausted 429 retries, an empty or white-space body or a body that
\* is not JSON gives "no data" ([] for getInPlayEvents, null otherwise).
FailedFetch(c) ==
  \/ calls[c].net
  \/ ~ResponseOk(calls[c].status)
  \/ TextLen(calls[c].body) = 0
  \/ calls[c].body.doc = ""
  \/ calls[c].body.doc = "<html>"

C4_NeverRaises ==
  \A c \in Callers :
    /\ calls[c].result.kind # "raised"
    /\ (Done(c) /\ calls[c].sent > 0 /\ FailedFetch(c))
         => calls[c].result = NoData(calls[c].fn)

C4_Witness ==
  \E c \in Callers : /\ Done(c) /\ calls[c].status = 200
                       /\ calls[c].body = [lead |-> 0, doc |-> "<html>"]
                       /\ calls[c].fn = "getInPlayEvents"
                       /\ calls[c].result = EmptyList

\* C5: with the token 'DEMO_MODE' a call settles on the spot with [] or null:
\* no request, no wait on the rate limiter, lastApiCallTime untouched.
C5_DemoShortCircuit ==
  [][\A c \in {1} :
       (calls[c].pc = "idle" /\ calls'[c].pc # "idle" /\ calls'[c].token = "DEMO_MODE")
       => /\ calls'[c].pc = "done"
          /\ calls'[c].result = NoData(calls'[c].fn)
          /\ calls'[c].sent = 0
          /\ requests' = requests
          /\ lastApiCallTime' = lastApiCallTime
          /\ now' = now]_vars

\* a demo call settled while the rate limiter would have made a real one wait
C5_Witness ==
  \E c \in Callers : /\ Done(c) /\ calls[c].token = "DEMO_MODE"
                       /\ calls[c].fn = "getMatchOdds"
                       /\ lastApiCallTime > 0
                       /\ WaitTime(now, lastApiCallTime) > 0

(***************************************************************************)
(* ParseSpec: stats mappings arrive and are parsed                         *)
(***************************************************************************)
\* match details have arrived with some stats mapping and are not rendered yet
ParseInit ==
  /\ statsInput \in StatsInputs
  /\ parsedStats = Unparsed
  /\ now = StartTime /\ lastApiCallTime = 0 /\ calls = <<>>
  /\ requests = <<>> /\ started = 0
  /\ oddsHistory = <<>> /\ latestOdds = 0 /\ table = Unmounted
  /\ RestIdle

\* the render: stats = parseStats(liveMatch.stats)
RenderStats ==
  /\ ~parsedStats.done
  /\ parsedStats' = Parsed(ParseStats(statsInput))
  /\ UNCHANGED <<statsInput, apiVars, oddsVars, restVars>>

ParseNext == RenderStats

ParseSpec == ParseInit /\ [][ParseNext]_vars

(***************************************************************************)
(* Claims about the stats parser                                           *)
(***************************************************************************)
\* an optional minus sign followed by digits only
IsIntegerString(str) ==
  LET body == IF str # <<>> /\ Head(str) = "-" THEN Tail(str) ELSE str
  IN body # <<>> /\ \A i \in DOMAIN body : body[i] \in Digits

WellFormedEntry(e) ==
  e.present /\ Len(e.arr) = 2 /\ IsIntegerString(e.arr[1]) /\ IsIntegerString(e.arr[2])

\* C6: every key of the parsed stats is [0,0] when the input is undefined,
\* the key is missing or its array is malformed (wrong length, or an entry
\* that is empty or not numeric), and [home, away] parsed in order when the
\* array is well-formed.
C6_ParseStats ==
  parsedStats.done =>
    \A k \in StatKeys :
      LET e == IF statsInput.defined THEN statsInput.keys[k] ELSE Absent IN
      IF WellFormedEntry(e)
      THEN parsedStats.stats[k] = <<ParseInt(e.arr[1]), ParseInt(e.arr[2])>>
      ELSE parsedStats.stats[k] = <<Num(0), Num(0)>>

(***************************************************************************)
(* OddsSpec: quote points accumulate, the table reconciles the main line   *)
(***************************************************************************)
OddsInit ==
  /\ oddsHistory = <<>>
  /\ latestOdds = 0
  /\ table = Unmounted
  /\ now = StartTime /\ lastApiCallTime = 0 /\ calls = <<>>
  /\ requests = <<>> /\ started = 0
  /\ statsInput = UndefinedStats /\ parsedStats = Unparsed
  /\ RestIdle

\* a poll adds a quote point; the table recomputes
\* latestOdds = getLatestMainMarketOdd(oddsHistory)
AppendQuote ==
  /\ Len(oddsHistory) < MaxHist
  /\ \E p \in Points : oddsHistory' = Append(oddsHistory, p)
  /\ latestOdds' = MainMarketOddOf(ArrayProp(oddsHistory'))
  /\ table' = Mounted(ArrayProp(oddsHistory'))
  /\ UNCHANGED <<apiVars, parseVars, restVars>>

\* the table is rendered before any quote has been observed, with the
\* Dashboard's empty array or without the prop
MountTable ==
  /\ table.prop = "unmounted"
  /\ oddsHistory = <<>>
  /\ \E prop \in {MissingProp, ArrayProp(oddsHistory)} :
       /\ latestOdds' = MainMarketOddOf(prop)
       /\ table' = Mounted(prop)
  /\ UNCHANGED <<oddsHistory, apiVars, parseVars, restVars>>

OddsNext == AppendQuote \/ MountTable

OddsSpec == OddsInit /\ [][OddsNext]_vars

(***************************************************************************)
(* Claims about the main-line reconciliation                               *)
(***************************************************************************)
\* the positions inside the window: minute >= last minute - 7 (at least 0)
\* (a NaN minute is in no window and spans none)
Window ==
  IF oddsHistory = <<>> THEN {}
  ELSE LET last == oddsHistory[Len(oddsHistory)].minute
       IN {i \in DOMAIN oddsHistory :
             /\ last # NaNMinute /\ oddsHistory[i].minute # NaNMinute
             /\ oddsHistory[i].minute >= 0
             /\ oddsHistory[i].minute >= last - 7}

Freq(h) == Cardinality({i \in Window : oddsHistory[i].handicap = h})

InWindow(h) == Freq(h) > 0

Dominates(h) == InWindow(h) /\ \A g \in Handicaps \ {h} : Freq(h) > Freq(g)

\* at least two handicaps in the window, all equally frequent
FullTie ==
  /\ Cardinality({h \in Handicaps : InWindow(h)}) >= 2
  /\ \A g, h \in Handicaps : (InWindow(g) /\ InWindow(h)) => Freq(g) = Freq(h)

IsLatestOf(i, h) ==
  /\ i \in DOMAIN oddsHistory
  /\ oddsHistory[i].handicap = h
  /\ \A j \in DOMAIN oddsHistory : j > i => oddsHistory[j].handicap # h

Example == << [minute |-> 10, handicap |-> "0.5"],
              [minute |-> 12, handicap |-> "0.5"],
              [minute |-> 14, handicap |-> "0.75"] >>

\* C7: when one handicap occurs strictly more often in the window than every
\* other, the function returns the latest quote of that handicap; for
\* [(10,"0.5"),(12,"0.5"),(14,"0.75")] that is the point at minute 12.
C7_DominantLine ==
  /\ \A h \in Handicaps : Dominates(h) => IsLatestOf(latestOdds, h)
  /\ oddsHistory = Example => latestOdds = 2

C7_Witness == oddsHistory = Example /\ latestOdds = 2

\* the whole history lies inside the window
ShortHistory == oddsHistory # <<>> /\ Window = DOMAIN oddsHistory

\* C8 as claimed: a non-empty history shorter than the window gives the
\* last array element, whatever the earlier handicaps.  It is stated of the
\* histories without a tie, where the tie-break of C9 plays no part.
C8_ShortReturnsLast ==
  (ShortHistory /\ ~FullTie) => latestOdds = Len(oddsHistory)

\* C8 amended: a non-empty history shorter than the window is reconciled by
\* frequency like any other: the function returns a point whose handicap has
\* the highest count, and that is the last array element whenever the last
\* point's handicap occurs strictly more often than every other.
C8_ShortUsesFrequency ==
  ShortHistory =>
    /\ latestOdds \in DOMAIN oddsHistory
    /\ \A g \in Handicaps : Freq(oddsHistory[latestOdds].handicap) >= Freq(g)
    /\ Dominates(oddsHistory[Len(oddsHistory)].handicap) => latestOdds = Len(oddsHistory)

C8_Witness ==
  /\ ShortHistory /\ Len(oddsHistory) = 3 /\ latestOdds = 2
  /\ oddsHistory[3].handicap # oddsHistory[2].handicap

\* C9: when all handicaps of the window occur equally often, the function
\* picks the handicap of the latest quote in the window and returns its
\* latest quote.
LatestInWindow == CHOOSE i \in Window : \A j \in Window : j <= i

C9_TieMostRecent ==
  FullTie => IsLatestOf(latestOdds, oddsHistory[LatestInWindow].handicap)

\* C10: for a non-empty history the returned point is one of its elements
\* and no later element carries the same handicap.
C10_ResultInHistory ==
  oddsHistory # <<>> =>
    /\ latestOdds \in DOMAIN oddsHistory
    /\ \A j \in DOMAIN oddsHistory :
         j > latestOdds => oddsHistory[j].handicap # oddsHistory[latestOdds].handicap

\* the returned point is neither the first quote of its handicap nor the
\* last point of the history
C10_Witness ==
  /\ latestOdds \in DOMAIN oddsHistory
  /\ latestOdds < Len(oddsHistory)
  /\ \E i \in 1..(latestOdds - 1) :
       oddsHistory[i].handicap = oddsHistory[latestOdds].handicap

\* C11: rendered from an empty or a missing history, the table has no quote:
\* getLatestMainMarketOdd gives null and so does the last-entry variant.
C11_EmptyNoQuote ==
  (table.prop # "unmounted" /\ (table.prop = "missing" \/ oddsHistory = <<>>))
    => (latestOdds = 0 /\ table.lastOdds = 0)

C11_Witness == table.prop = "missing" /\ latestOdds = 0 /\ table.lastOdds = 0

(***************************************************************************)
(* Ticket ledger: TicketManager and BetHistory over localStorage           *)
(*                                                                         *)
(* ledger.store is the parsed 'betTickets' item; tm and bh are the         *)
(* components' own states (tickets / allTickets); clock is Date.now() at   *)
(* the last add, which gives a ticket its id and createdAt; lastOp is the  *)
(* deletion the last step performed, if it was one.                        *)
(***************************************************************************)
Matches          == {"M1", "M2"}
TerminalStatuses == {"won", "lost", "push", "won_half", "lost_half"}
\* the settle buttons the user presses
SettleChoices    == {"won", "lost_half"}

NewTicket(t, m) == [id |-> t, matchId |-> m, status |-> "pending", createdAt |-> t]

\* allTickets.filter(t => t.matchId === match.id)
RECURSIVE OfMatch(_, _)
OfMatch(tickets, m) ==
  IF tickets = <<>> THEN <<>>
  ELSE IF Head(tickets).matchId = m THEN <<Head(tickets)>> \o OfMatch(Tail(tickets), m)
  ELSE OfMatch(Tail(tickets), m)

\* allTickets.filter(t => t.matchId !== match.id)
RECURSIVE NotOfMatch(_, _)
NotOfMatch(tickets, m) ==
  IF tickets = <<>> THEN <<>>
  ELSE IF Head(tickets).matchId # m THEN <<Head(tickets)>> \o NotOfMatch(Tail(tickets), m)
  ELSE NotOfMatch(Tail(tickets), m)

\* tickets.map(ticket => ticket.id === id ? { ...ticket, status } : ticket)
WithStatus(tickets, id, status) ==
  [i \in DOMAIN tickets |->
     IF tickets[i].id = id THEN [tickets[i] EXCEPT !.status = status] ELSE tickets[i]]

\* tickets.filter(ticket => ticket.id !== id)
RECURSIVE Without(_, _)
Without(tickets, id) ==
  IF tickets = <<>> THEN <<>>
  ELSE IF Head(tickets).id # id THEN <<Head(tickets)>> \o Without(Tail(tickets), id)
  ELSE Without(Tail(tickets), id)

\* sort((a, b) => (b.createdAt || 0) - (a.createdAt || 0)): stable, most
\* recent first
RECURSIVE InsertByCreated(_, _)
InsertByCreated(t, sorted) ==
  IF sorted = <<>> THEN <<t>>
  ELSE IF Head(sorted).createdAt < t.createdAt THEN <<t>> \o sorted
  ELSE <<Head(sorted)>> \o InsertByCreated(t, Tail(sorted))

RECURSIVE MostRecentFirst(_)
MostRecentFirst(tickets) ==
  IF tickets = <<>> THEN <<>>
  ELSE LET n == Len(tickets)
       IN InsertByCreated(tickets[n], MostRecentFirst(SubSeq(tickets, 1, n - 1)))

SaveAllTickets_OwnOnly(stored, m, updatedTickets) == updatedTickets

\* saveAllTickets: the stored tickets of the other matches, then the
\* component's tickets
SaveAllTickets(stored, m, updatedTickets) == NotOfMatch(stored, m) \o updatedTickets

\* the buttons a ticket row offers
IsPendingIn(tickets, id) ==
  \E i \in DOMAIN tickets : tickets[i].id = id /\ tickets[i].status = "pending"

Ids(tickets) == {tickets[i].id : i \in DOMAIN tickets}

Unloaded == [mounted |-> FALSE, match |-> "none", tickets |-> <<>>]
NoOp     == [op |-> "none", id |-> 0, by |-> "none"]
Op(op, id, by) == [op |-> op, id |-> id, by |-> by]

LedgerFrame ==
  UNCHANGED <<apiVars, parseVars, oddsVars, slip, pressure, dash, week, predict, momentum>>

LedgerInit ==
  /\ ledger = [store |-> <<>>, tm |-> Unloaded, bh |-> Unloaded, clock |-> 0,
               lastOp |-> NoOp]
  /\ slip = Off /\ pressure = Off /\ dash = Off /\ week = Off
  /\ predict = Off /\ momentum = Off
  /\ now = StartTime /\ lastApiCallTime = 0 /\ calls = <<>>
  /\ requests = <<>> /\ started = 0
  /\ statsInput = UndefinedStats /\ parsedStats = Unparsed
  /\ oddsHistory = <<>> /\ latestOdds = 0 /\ table = Unmounted

\* TicketManager mounts for a match: the load effect
TMMount ==
  /\ ~ledger.tm.mounted
  /\ \E m \in Matches :
       ledger' = [ledger EXCEPT
         !.tm = [mounted |-> TRUE, match |-> m, tickets |-> OfMatch(ledger.store, m)],
         !.lastOp = NoOp]
  /\ LedgerFrame

TMUnmount ==
  /\ ledger.tm.mounted
  /\ ledger' = [ledger EXCEPT !.tm = Unloaded, !.lastOp = NoOp]
  /\ LedgerFrame

\* the form of TicketManager: the stake and odds fields, the selected bet
\* type, and the latest handicaps the parent passes down
\* ('Tài' | 'Xỉu' | 'Đội nhà' | 'Đội khách', each also with ' H1'; the
\* model writes the markets "Tai", "Xiu", "Doi nha", "Doi khach")
BetType(market, h1) == [market |-> market, h1 |-> h1]

\* an optional prop { handicap: string }
NoQuote         == [given |-> FALSE, handicap |-> <<>>]
Quote(handicap) == [given |-> TRUE, handicap |-> handicap]

\* a string value or undefined
Undefined == [defined |-> FALSE, text |-> <<>>]
Text(str) == [defined |-> TRUE, text |-> str]

\* prop?.handicap
HandicapOf(prop) == IF prop.given THEN Text(prop.handicap) ELSE Undefined

\* parseFloat(string): on a string without a decimal point or an exponent it
\* reads what parseInt reads
ParseFloat(str) == ParseInt(str)

DigitChar(d) == IF d = 7 THEN "7" ELSE "0"

RECURSIVE DigitsOf(_)
DigitsOf(n) ==
  IF n < 10 THEN <<DigitChar(n)>> ELSE DigitsOf(n \div 10) \o <<DigitChar(n % 10)>>

\* n.toFixed(2) of a whole number
ToFixed2(n) ==
  (IF n < 0 THEN <<"-">> \o DigitsOf(0 - n) ELSE DigitsOf(n)) \o <<".", "0", "0">>

\* currentHandicap
CurrentHandicap(betType, props) ==
  LET isOverUnder == betType.market \in {"Tai", "Xiu"}
      isH1        == betType.h1
      rawHandicap == HandicapOf(IF isH1 THEN props.latestH1HomeOdds
                                        ELSE props.latestHomeOdds)
      handicapNum == ParseFloat(rawHandicap.text)
      invertedNum == 0 - handicapNum.v
      formatted   == ToFixed2(invertedNum)
  IN IF isOverUnder
     THEN HandicapOf(IF isH1 THEN props.latestH1OverOdds ELSE props.latestOverOdds)
     ELSE IF ~rawHandicap.defined THEN Undefined
     ELSE IF betType.market = "Doi nha" THEN rawHandicap
     ELSE IF handicapNum.nan \/ handicapNum.v = 0 THEN rawHandicap
     ELSE IF invertedNum > 0 THEN Text(<<"+">> \o formatted)
     ELSE Text(formatted)

\* !handicap
Falsy(handicap) == ~handicap.defined \/ handicap.text = <<>>

Form(stake, odds, betType, props) ==
  [stake |-> stake, odds |-> odds, betType |-> betType, props |-> props]

Props(over, home, h1Over, h1Home) ==
  [latestOverOdds |-> over, latestHomeOdds |-> home,
   latestH1OverOdds |-> h1Over, latestH1HomeOdds |-> h1Home]

\* forms the user submits
SubmittedForms ==
  LET all  == Props(Quote(<<"7">>), Quote(<<"-", "7">>), Quote(<<"7">>), Quote(<<"0">>))
      none == Props(NoQuote, NoQuote, NoQuote, NoQuote)
      odd  == Props(Quote(<<>>), Quote(<<>>), NoQuote, Quote(<<"a">>))
  IN { Form(<<"7">>, <<"7">>, BetType("Tai", FALSE), all),
       Form(<<"7", "a">>, <<" ", "7">>, BetType("Doi khach", FALSE), all),
       Form(<<"7">>, <<"7", "0">>, BetType("Doi khach", TRUE), odd),
       Form(<<"a">>, <<"7">>, BetType("Tai", FALSE), all),
       Form(<<>>, <<"7">>, BetType("Xiu", TRUE), all),
       Form(<<"0">>, <<"7">>, BetType("Doi nha", FALSE), all),
       Form(<<"7">>, <<"-", "7">>, BetType("Doi nha", TRUE), all),
       Form(<<"7">>, <<"-">>, BetType("Tai", FALSE), all),
       Form(<<"7">>, <<"7">>, BetType("Tai", FALSE), none),
       Form(<<"7">>, <<"7">>, BetType("Doi nha", FALSE), none),
       Form(<<"7">>, <<"7">>, BetType("Xiu", TRUE), odd),
       Form(<<"7">>, <<"7">>, BetType("Doi khach", FALSE), odd),
       Form(<<"7">>, <<"7">>, BetType("Xiu", FALSE), odd) }

\* the two early returns of handleAddTicket
Rejects(form) ==
  LET stakeNum == ParseFloat(form.stake)
      oddsNum  == ParseFloat(form.odds)
  IN \/ stakeNum.nan \/ oddsNum.nan \/ stakeNum.v <= 0 \/ oddsNum.v <= 0
     \/ Falsy(CurrentHandicap(form.betType, form.props))

\* handleAddTicket on the submitted form
HandleAddTicket(form) ==
  /\ ledger.tm.mounted
  /\ IF Rejects(form)
     THEN ledger' = [ledger EXCEPT !.lastOp = NoOp]
     ELSE /\ ledger.clock < MaxTickets
          /\ LET t       == ledger.clock + 1
                 updated == Append(ledger.tm.tickets, NewTicket(t, ledger.tm.match))
             IN ledger' = [ledger EXCEPT
                  !.clock = t,
                  !.tm.tickets = updated,
                  !.store = SaveAllTickets(ledger.store, ledger.tm.match, updated),
                  !.lastOp = NoOp]
  /\ LedgerFrame

TMAdd == \E form \in SubmittedForms : HandleAddTicket(form)

\* TicketManager.handleUpdateStatus, from a settle button of a pending row
TMSettle ==
  /\ ledger.tm.mounted
  /\ \E id \in Ids(ledger.tm.tickets), status \in SettleChoices :
       /\ IsPendingIn(ledger.tm.tickets, id)
       /\ LET updated == WithStatus(ledger.tm.tickets, id, status)
          IN ledger' = [ledger EXCEPT
               !.tm.tickets = updated,
               !.store = SaveAllTickets(ledger.store, ledger.tm.match, updated),
               !.lastOp = NoOp]
  /\ LedgerFrame

\* TicketManager.handleDeleteTicket, confirmed; every row has the button
TMDelete ==
  /\ ledger.tm.mounted
  /\ \E id \in Ids(ledger.tm.tickets) :
       LET updated == Without(ledger.tm.tickets, id)
       IN ledger' = [ledger EXCEPT
            !.tm.tickets = updated,
            !.store = SaveAllTickets(ledger.store, ledger.tm.match, updated),
            !.lastOp = Op("delete", id, "tm")]
  /\ LedgerFrame

\* BetHistory mounts: the load effect
BHMount ==
  /\ ~ledger.bh.mounted
  /\ ledger' = [ledger EXCEPT
       !.bh = [mounted |-> TRUE, match |-> "none",
               tickets |-> MostRecentFirst(ledger.store)],
       !.lastOp = NoOp]
  /\ LedgerFrame

BHUnmount ==
  /\ ledger.bh.mounted
  /\ ledger' = [ledger EXCEPT !.bh = Unloaded, !.lastOp = NoOp]
  /\ LedgerFrame

\* BetHistory.handleUpdateStatus, from a settle button of a pending row
BHSettle ==
  /\ ledger.bh.mounted
  /\ \E id \in Ids(ledger.bh.tickets), status \in SettleChoices :
       /\ IsPendingIn(ledger.bh.tickets, id)
       /\ LET updated == WithStatus(ledger.bh.tickets, id, status)
          IN ledger' = [ledger EXCEPT
               !.bh.tickets = updated,
               !.store = updated,
               !.lastOp = NoOp]
  /\ LedgerFrame

\* BetHistory.handleDeleteTicket, confirmed; only pending rows have the button
BHDelete ==
  /\ ledger.bh.mounted
  /\ \E id \in Ids(ledger.bh.tickets) :
       /\ IsPendingIn(ledger.bh.tickets, id)
       /\ LET updated == Without(ledger.bh.tickets, id)
          IN ledger' = [ledger EXCEPT
               !.bh.tickets = updated,
               !.store = updated,
               !.lastOp = Op("delete", id, "bh")]
  /\ LedgerFrame

LedgerNext ==
  \/ TMMount \/ TMUnmount \/ TMAdd \/ TMSettle \/ TMDelete
  \/ BHMount \/ BHUnmount \/ BHSettle \/ BHDelete

LedgerSpec == LedgerInit /\ [][LedgerNext]_vars

(***************************************************************************)
(* Claims about the ticket ledger                                          *)
(***************************************************************************)
StoredStatus(store, id) ==
  {store[i].status : i \in {j \in DOMAIN store : store[j].id = id}}

\* C12: in the persisted ledger a ticket's status changes only from pending
\* to won / lost / push / won_half / lost_half: never back to pending and
\* never from one terminal state to another.
C12_StatusOneWay ==
  [][\A id \in Ids(ledger.store) \cap Ids(ledger'.store) :
       \A before \in StoredStatus(ledger.store, id),
          after \in StoredStatus(ledger'.store, id) :
            before # after => (before = "pending" /\ after \in TerminalStatuses)]_vars

\* C13: a ticket leaves the persisted ledger only by the step that deletes
\* that very ticket.
C13_OnlyDeleteRemoves ==
  [][\A id \in Ids(ledger.store) :
       id \notin Ids(ledger'.store)
         => (ledger'.lastOp.op = "delete" /\ ledger'.lastOp.id = id)]_vars

\* what the form asks for: the field reads as a number above zero
AmountGiven(field) == ~ParseFloat(field).nan /\ ParseFloat(field).v > 0

\* the quote the selected bet type is priced from
QuoteFor(form) ==
  IF form.betType.market \in {"Tai", "Xiu"}
  THEN (IF form.betType.h1 THEN form.props.latestH1OverOdds
                           ELSE form.props.latestOverOdds)
  ELSE (IF form.betType.h1 THEN form.props.latestH1HomeOdds
                           ELSE form.props.latestHomeOdds)

HandicapGiven(form) == QuoteFor(form).given /\ QuoteFor(form).handicap # <<>>

\* every stored ticket of before is stored, as it was, after
AllKept(before, after) ==
  \A i \in 1..Len(before) : \E j \in 1..Len(after) : after[j] = before[i]

\* C29: handleAddTicket rejects a stake or odds that is not a number or is
\* not above zero, and a bet type without a current handicap, and then the
\* ticket list and the stored ledger stay as they are; otherwise the list and
\* the ledger gain exactly one ticket, pending and of the current match, and
\* every ticket stored before is stored unchanged after.
C29_AddValidatesAndAppends ==
  [][\A form \in SubmittedForms :
       HandleAddTicket(form) =>
         IF AmountGiven(form.stake) /\ AmountGiven(form.odds) /\ HandicapGiven(form)
         THEN /\ Len(ledger'.tm.tickets) = Len(ledger.tm.tickets) + 1
              /\ SubSeq(ledger'.tm.tickets, 1, Len(ledger.tm.tickets))
                   = ledger.tm.tickets
              /\ ledger'.tm.tickets[Len(ledger'.tm.tickets)].status = "pending"
              /\ ledger'.tm.tickets[Len(ledger'.tm.tickets)].matchId
                   = ledger.tm.match
              /\ Len(ledger'.store) = Len(ledger.store) + 1
              /\ AllKept(ledger.store, ledger'.store)
         ELSE /\ ledger'.tm.tickets = ledger.tm.tickets
              /\ ledger'.store = ledger.store]_vars

\* C29, within the component: the same, of the component's ticket list and
\* of the stored tickets of the other matches
C29_AddValidatesAndAppendsToList ==
  [][\A form \in SubmittedForms :
       HandleAddTicket(form) =>
         IF AmountGiven(form.stake) /\ AmountGiven(form.odds) /\ HandicapGiven(form)
         THEN /\ Len(ledger'.tm.tickets) = Len(ledger.tm.tickets) + 1
              /\ SubSeq(ledger'.tm.tickets, 1, Len(ledger.tm.tickets))
                   = ledger.tm.tickets
              /\ ledger'.tm.tickets[Len(ledger'.tm.tickets)].status = "pending"
              /\ ledger'.tm.tickets[Len(ledger'.tm.tickets)].matchId
                   = ledger.tm.match
              /\ OfMatch(ledger'.store, ledger.tm.match) = ledger'.tm.tickets
              /\ NotOfMatch(ledger'.store, ledger.tm.match)
                   = NotOfMatch(ledger.store, ledger.tm.match)
         ELSE /\ ledger'.tm.tickets = ledger.tm.tickets
              /\ ledger'.store = ledger.store]_vars

\* C28: a step in which the mounted TicketManager adds, settles or deletes a
\* ticket leaves the stored tickets of every other match as they are, in
\* their order, and stores its own tickets as those of its match.
C28_OtherMatchesKept ==
  [][(/\ ledger.tm.mounted /\ ledger'.tm.mounted
      /\ ledger'.tm.tickets # ledger.tm.tickets)
       => /\ NotOfMatch(ledger'.store, ledger.tm.match)
               = NotOfMatch(ledger.store, ledger.tm.match)
          /\ OfMatch(ledger'.store, ledger.tm.match) = ledger'.tm.tickets]_vars

\* the TicketManager of M2 has settled its ticket, and the pending ticket of
\* M1, stored before it, is still in the ledger
C28_Witness ==
  /\ ledger.tm.mounted /\ ledger.tm.match = "M2"
  /\ Len(ledger.store) = 2
  /\ ledger.store[1].matchId = "M1" /\ ledger.store[1].status = "pending"
  /\ ledger.store[2].matchId = "M2" /\ ledger.store[2].status = "won"
  /\ ledger.tm.tickets = <<ledger.store[2]>>

(***************************************************************************)
(* Settlement arithmetic: calculateProfitLoss and the summaries            *)
(*                                                                         *)
(* A stake is a whole amount and a price (odds) a number of hundredths;    *)
(* profits are exact amounts counted in half hundredths, so that the       *)
(* halves of won_half / lost_half are whole.                               *)
(***************************************************************************)
TicketStatuses == {"pending"} \cup TerminalStatuses
Stakes == {50, 100}
Prices == {80, 195, 200}
SlipTickets == [stake : Stakes, odds : Prices, status : TicketStatuses]

\* ticket.stake * ticket.odds and ticket.stake as amounts
Payout(t)   == 2 * t.stake * t.odds
StakeAmt(t) == 2 * 100 * t.stake

CalculateProfitLoss_HalfAsFull(t) ==
  CASE t.status = "pending"   -> 0
    [] t.status = "won"       -> Payout(t) - StakeAmt(t)
    [] t.status = "lost"      -> 0 - StakeAmt(t)
    [] t.status = "won_half"  -> Payout(t) - StakeAmt(t)
    [] t.status = "lost_half" -> 0 - StakeAmt(t)
    [] OTHER                  -> 0

\* calculateProfitLoss(ticket)
CalculateProfitLoss(t) ==
  CASE t.status = "pending"   -> 0
    [] t.status = "won"       -> Payout(t) - StakeAmt(t)
    [] t.status = "lost"      -> 0 - StakeAmt(t)
    [] t.status = "won_half"  -> (Payout(t) - StakeAmt(t)) \div 2
    [] t.status = "lost_half" -> 0 - (StakeAmt(t) \div 2)
    [] t.status = "push"      -> 0
    [] OTHER                  -> 0

\* TicketManager's summary: the reduce over tickets, totalPL
RECURSIVE ManagerTotalPL(_, _)
ManagerTotalPL(tickets, acc) ==
  IF tickets = <<>> THEN acc
  ELSE LET t == Head(tickets) IN
    ManagerTotalPL(Tail(tickets),
      CASE t.status = "pending"   -> acc
        [] t.status = "won"       -> acc + (Payout(t) - StakeAmt(t))
        [] t.status = "lost"      -> acc - StakeAmt(t)
        [] t.status = "won_half"  -> acc + ((Payout(t) - StakeAmt(t)) \div 2)
        [] t.status = "lost_half" -> acc - (StakeAmt(t) \div 2)
        [] OTHER                  -> acc)

\* BetHistory's summary: the reduce over filteredTickets, totalPL
RECURSIVE HistoryTotalPL(_, _)
HistoryTotalPL(tickets, acc) ==
  IF tickets = <<>> THEN acc
  ELSE LET t == Head(tickets) IN
    HistoryTotalPL(Tail(tickets),
      IF t.status = "pending" THEN acc ELSE acc + CalculateProfitLoss(t))

SlipFrame ==
  UNCHANGED <<apiVars, parseVars, oddsVars, ledger, pressure, dash, week, predict, momentum>>

\* no ticket listed yet
SlipInit ==
  /\ slip = [tickets |-> <<>>, profits |-> <<>>, managerPL |-> 0, historyPL |-> 0]
  /\ ledger = Off /\ pressure = Off /\ dash = Off /\ week = Off
  /\ predict = Off /\ momentum = Off
  /\ now = StartTime /\ lastApiCallTime = 0 /\ calls = <<>>
  /\ requests = <<>> /\ started = 0
  /\ statsInput = UndefinedStats /\ parsedStats = Unparsed
  /\ oddsHistory = <<>> /\ latestOdds = 0 /\ table = Unmounted

\* one more ticket is listed; the rows and both summaries are recomputed
ListTicket ==
  /\ Len(slip.tickets) < MaxSlip
  /\ \E t \in SlipTickets :
       LET tickets == Append(slip.tickets, t) IN
       slip' = [tickets   |-> tickets,
                profits   |-> [i \in DOMAIN tickets |-> CalculateProfitLoss(tickets[i])],
                managerPL |-> ManagerTotalPL(tickets, 0),
                historyPL |-> HistoryTotalPL(tickets, 0)]
  /\ SlipFrame

SlipNext == ListTicket

SlipSpec == SlipInit /\ [][SlipNext]_vars

(***************************************************************************)
(* Claims about the settlement arithmetic                                  *)
(***************************************************************************)
\* stake * (odds - 1), -stake and their halves, in half hundredths
ExpectedProfit(t) ==
  CASE t.status = "won"       -> 2 * t.stake * (t.odds - 100)
    [] t.status = "lost"      -> 0 - 200 * t.stake
    [] t.status = "won_half"  -> t.stake * (t.odds - 100)
    [] t.status = "lost_half" -> 0 - 100 * t.stake
    [] OTHER                  -> 0

RECURSIVE SumSeq(_)
SumSeq(q) == IF q = <<>> THEN 0 ELSE Head(q) + SumSeq(Tail(q))

\* C14: a ticket's profit is stake*(odds-1) when won, -stake when lost, 0
\* when push or pending and half of the won / lost amount when won_half /
\* lost_half; each displayed total is the sum of these over the listed
\* tickets.  Stake 100 at 1.95 won gives +95, at 2.00 half-won gives +50.
C14_Settlement ==
  /\ \A i \in DOMAIN slip.tickets : slip.profits[i] = ExpectedProfit(slip.tickets[i])
  /\ slip.managerPL = SumSeq([i \in DOMAIN slip.tickets |-> ExpectedProfit(slip.tickets[i])])
  /\ slip.historyPL = slip.managerPL
  /\ \A i \in DOMAIN slip.tickets :
       /\ slip.tickets[i] = [stake |-> 100, odds |-> 195, status |-> "won"]
            => slip.profits[i] = 95 * 200
       /\ slip.tickets[i] = [stake |-> 100, odds |-> 200, status |-> "won_half"]
            => slip.profits[i] = 50 * 200

C14_Witness ==
  /\ slip.tickets = << [stake |-> 100, odds |-> 195, status |-> "won"],
                       [stake |-> 100, odds |-> 200, status |-> "won_half"] >>
  /\ slip.managerPL = 145 * 200

(***************************************************************************)
(* Pressure score: calculateAPIScore and apiChartData                      *)
(*                                                                         *)
(* Scores are exact and counted in tenths (weights 3.0, 1.0, 0.7, 0.1);    *)
(* a number is Num(n) or NaN, as parseStats delivers it.                   *)
(***************************************************************************)
ScoreKeys == {"on_target", "off_target", "corners", "dangerous_attacks"}
Sides     == {1, 2}

\* arithmetic on numbers: NaN is contagious
Times(x, w) == IF x.nan THEN NaN ELSE Num(x.v * w)
Plus(x, y)  == IF x.nan \/ y.nan THEN NaN ELSE Num(x.v + y.v)
Minus(x, y) == IF x.nan \/ y.nan THEN NaN ELSE Num(x.v - y.v)

NoStats == [defined |-> FALSE]
ProcessedStats(keys) == [defined |-> TRUE, keys |-> keys]

CalculateAPIScore_OffTargetPenalty(stats, sideIndex) ==
  IF ~stats.defined THEN Num(0)
  ELSE Plus(Plus(Plus(Times(stats.keys["on_target"][sideIndex], 30),
                      Times(stats.keys["off_target"][sideIndex], 0 - 10)),
                 Times(stats.keys["corners"][sideIndex], 7)),
            Times(stats.keys["dangerous_attacks"][sideIndex], 1))

\* calculateAPIScore(stats, sideIndex), sideIndex 0 | 1 being position 1 | 2
CalculateAPIScore(stats, sideIndex) ==
  IF ~stats.defined THEN Num(0)
  ELSE Plus(Plus(Plus(Times(stats.keys["on_target"][sideIndex], 30),
                      Times(stats.keys["off_target"][sideIndex], 10)),
                 Times(stats.keys["corners"][sideIndex], 7)),
            Times(stats.keys["dangerous_attacks"][sideIndex], 1))

\* Object.keys(statsHistory).map(Number).sort((a, b) => a - b)
RECURSIVE SortedMinutes(_)
SortedMinutes(ms) ==
  IF ms = {} THEN <<>>
  ELSE LET least == CHOOSE m \in ms : \A n \in ms : m <= n
       IN <<least>> \o SortedMinutes(ms \ {least})

ChartPoint(history, minute) ==
  LET home == CalculateAPIScore(history[minute], 1)
      away == CalculateAPIScore(history[minute], 2)
  IN [minute |-> minute, homeApi |-> home, awayApi |-> away, gap |-> Minus(home, away)]

\* apiChartData
ApiChartData(history) ==
  LET sortedMinutes == SortedMinutes(DOMAIN history)
  IN [i \in DOMAIN sortedMinutes |-> ChartPoint(history, sortedMinutes[i])]

\* the minutes and the parsed stats a refresh records
StatMinutes == {2, 10}
StatValues  == {Num(0), Num(1), NaN}
SideStats   == {v \in [ScoreKeys -> StatValues] :
                  \/ \A k \in ScoreKeys : v[k] # NaN
                  \/ /\ Cardinality({k \in ScoreKeys : v[k] = NaN}) = 1
                     /\ Cardinality({k \in ScoreKeys : v[k] = Num(1)}) <= 1}
AwayStats   == {[k \in ScoreKeys |-> Num(0)], [k \in ScoreKeys |-> Num(1)]}
StatsSamples ==
  {ProcessedStats([k \in StatKeys |->
      IF k \in ScoreKeys THEN <<h[k], a[k]>> ELSE <<Num(0), Num(0)>>]) :
     h \in SideStats, a \in AwayStats}

EmptyHistory == [m \in {} |-> NoStats]

PressureFrame ==
  UNCHANGED <<apiVars, parseVars, oddsVars, ledger, slip, dash, week, predict, momentum>>

PressureInit ==
  /\ pressure = [statsHistory |-> EmptyHistory, apiChartData |-> <<>>]
  /\ ledger = Off /\ slip = Off /\ dash = Off /\ week = Off
  /\ predict = Off /\ momentum = Off
  /\ now = StartTime /\ lastApiCallTime = 0 /\ calls = <<>>
  /\ requests = <<>> /\ started = 0
  /\ statsInput = UndefinedStats /\ parsedStats = Unparsed
  /\ oddsHistory = <<>> /\ latestOdds = 0 /\ table = Unmounted

\* setStatsHistory(prev => ({ ...prev, [tm]: parseStats(details.stats) }))
\* and the recomputation of apiChartData
RecordStats ==
  /\ \E minute \in StatMinutes, stats \in StatsSamples :
       LET history == [m \in DOMAIN pressure.statsHistory \cup {minute} |->
                         IF m = minute THEN stats ELSE pressure.statsHistory[m]]
       IN pressure' = [statsHistory |-> history, apiChartData |-> ApiChartData(history)]
  /\ PressureFrame

PressureNext == RecordStats

PressureSpec == PressureInit /\ [][PressureNext]_vars

(***************************************************************************)
(* Claims about the pressure score                                         *)
(***************************************************************************)
\* next differs from prev in one score input of one side, which went up
RaisedOneInput(prev, next, side) ==
  \E k \in ScoreKeys :
    /\ ~prev.keys[k][side].nan /\ ~next.keys[k][side].nan
    /\ next.keys[k][side].v > prev.keys[k][side].v
    /\ \A j \in ScoreKeys \ {k} : next.keys[j][side] = prev.keys[j][side]

PointAt(chart, minute) == chart[CHOOSE i \in DOMAIN chart : chart[i].minute = minute]

SideScore(point, side) == IF side = 1 THEN point.homeApi ELSE point.awayApi

\* C15: when the stats of a minute are replaced by stats in which one of
\* on_target, off_target, corners, dangerous_attacks of a side went up and
\* that side's other three stayed, the side's score of that minute does not
\* go down (it stays NaN when another input is NaN); every chart point's gap is its homeApi minus its awayApi, and the chart has one
\* point per recorded minute, in ascending order.
C15_Monotone ==
  [][/\ \A m \in DOMAIN pressure.statsHistory, side \in Sides :
          RaisedOneInput(pressure.statsHistory[m], pressure'.statsHistory[m], side)
          => LET before == SideScore(PointAt(pressure.apiChartData, m), side)
                 after  == SideScore(PointAt(pressure'.apiChartData, m), side)
             IN /\ before.nan = after.nan
                /\ ~after.nan => after.v >= before.v
     /\ \A i \in DOMAIN pressure'.apiChartData :
          LET p == pressure'.apiChartData[i] IN
          /\ p.minute \in DOMAIN pressure'.statsHistory
          /\ p.gap.nan = (p.homeApi.nan \/ p.awayApi.nan)
          /\ ~p.gap.nan => p.gap.v = p.homeApi.v - p.awayApi.v
          /\ \A j \in DOMAIN pressure'.apiChartData : j > i =>
               pressure'.apiChartData[j].minute > p.minute
     /\ Len(pressure'.apiChartData) = Cardinality(DOMAIN pressure'.statsHistory)]_vars

\* two minutes are charted; at minute 10 the home side scores 3.7 (one shot
\* on target, one corner), the away side 4.8, and the gap is -1.1
C15_Witness ==
  /\ DOMAIN pressure.statsHistory = StatMinutes
  /\ \E i \in DOMAIN pressure.apiChartData :
       LET p == pressure.apiChartData[i] IN
       /\ p.minute = 10 /\ i = 2
       /\ p.homeApi = Num(30 + 7) /\ p.awayApi = Num(48) /\ p.gap = Num(0 - 11)

(***************************************************************************)
(* The score series and the tension level in the four dashboards           *)
(*                                                                         *)
(*   "Dashboard.tsx"  components/Dashboard.tsx                             *)
(*   "part_003"       the first dashboard of part_003 (no tension level)   *)
(*   "part_003b"      the second dashboard of part_003                     *)
(*   "part_004"       the dashboard of part_004                            *)
(*                                                                         *)
(* Scores are in tenths, as above.  A tension level is exact and counted   *)
(* in sixtieths: the dashboards scale a sum of scores by 2.5 / 3, by 2 and *)
(* by 3.5, which is 5, 12 and 21 sixtieths for each tenth of the sum.      *)
(***************************************************************************)
ChartVariants == {"Dashboard.tsx", "part_003", "part_003b", "part_004"}

Sixtieths(n) == n * 60

\* part_003's calculateAPIScore: shots = onTarget + offTarget;
\* shots * 1.0 + onTarget * 3.0 + corners * 0.7 + dangerous * 0.1
CalculateAPIScoreShots(stats, sideIndex) ==
  IF ~stats.defined THEN Num(0)
  ELSE LET onTarget  == stats.keys["on_target"][sideIndex]
           offTarget == stats.keys["off_target"][sideIndex]
           shots     == Plus(onTarget, offTarget)
       IN Plus(Plus(Plus(Times(shots, 10), Times(onTarget, 30)),
                    Times(stats.keys["corners"][sideIndex], 7)),
               Times(stats.keys["dangerous_attacks"][sideIndex], 1))

\* the score written out in apiChartData (part_003b, part_004):
\* s.on_target[i] * 3 + s.corners[i] * 0.7 + s.dangerous_attacks[i] * 0.1
InlineScore(stats, sideIndex) ==
  Plus(Plus(Times(stats.keys["on_target"][sideIndex], 30),
            Times(stats.keys["corners"][sideIndex], 7)),
       Times(stats.keys["dangerous_attacks"][sideIndex], 1))

ScoreOf(variant, stats, sideIndex) ==
  CASE variant = "Dashboard.tsx" -> CalculateAPIScore(stats, sideIndex)
    [] variant = "part_003"      -> CalculateAPIScoreShots(stats, sideIndex)
    [] OTHER                     -> InlineScore(stats, sideIndex)

\* apiChartData of a dashboard
ApiChartDataOf(variant, history) ==
  LET sortedMinutes == SortedMinutes(DOMAIN history)
  IN [i \in DOMAIN sortedMinutes |->
        LET minute == sortedMinutes[i]
            home   == ScoreOf(variant, history[minute], 1)
            away   == ScoreOf(variant, history[minute], 2)
        IN [minute |-> minute, homeApi |-> home, awayApi |-> away,
            gap |-> Minus(home, away)]]

\* Math.abs
Abs(x) == IF x.nan THEN NaN ELSE Num(IF x.v < 0 THEN 0 - x.v ELSE x.v)

\* Math.min(100, Math.max(lower, x)): NaN stays NaN
Clamp(lower, x) ==
  IF x.nan THEN NaN
  ELSE Num(IF x.v < Sixtieths(lower) THEN Sixtieths(lower)
           ELSE IF x.v > Sixtieths(100) THEN Sixtieths(100) ELSE x.v)

\* apiChartData.slice(-n)
LastPoints(data, n) ==
  IF Len(data) <= n THEN data ELSE SubSeq(data, Len(data) - n + 1, Len(data))

\* points.reduce((acc, curr) => acc + f(curr.homeApi + curr.awayApi), 0)
RECURSIVE SumActivity(_, _)
SumActivity(points, absolute) ==
  IF points = <<>> THEN Num(0)
  ELSE LET curr  == points[Len(points)]
           both  == Plus(curr.homeApi, curr.awayApi)
       IN Plus(SumActivity(SubSeq(points, 1, Len(points) - 1), absolute),
               IF absolute THEN Abs(both) ELSE both)

\* the trailing window, whether the sum takes absolute values, the scale in
\* sixtieths per tenth and the lower clamp of each tensionLevel
TensionParams(variant) ==
  CASE variant = "Dashboard.tsx" -> [window |-> 3, absolute |-> FALSE, scale |-> 5,  lower |-> 10]
    [] variant = "part_003b"     -> [window |-> 5, absolute |-> TRUE,  scale |-> 12, lower |-> 10]
    [] variant = "part_004"      -> [window |-> 3, absolute |-> TRUE,  scale |-> 21, lower |-> 15]

NoTension == [shown |-> FALSE]
Tension(level) == [shown |-> TRUE, level |-> level]

TensionLevel_WholeHistory(variant, data) ==
  IF variant = "part_003" THEN NoTension
  ELSE LET par == TensionParams(variant) IN
       IF Len(data) < par.window THEN Tension(Num(Sixtieths(20)))
       ELSE Tension(Clamp(par.lower, Times(SumActivity(data, par.absolute), par.scale)))

\* tensionLevel
TensionLevel(variant, data) ==
  IF variant = "part_003" THEN NoTension
  ELSE LET par == TensionParams(variant) IN
       IF Len(data) < par.window THEN Tension(Num(Sixtieths(20)))
       ELSE Tension(Clamp(par.lower,
                          Times(SumActivity(LastPoints(data, par.window), par.absolute),
                                par.scale)))

\* the minutes of the match clock at which stats arrive
ChartMinutes(variant) == IF variant = "part_003b" THEN 1..5 ELSE 1..4

\* the stats of a minute: home on_target, off_target, corners and away
\* on_target, the rest 0
StatsOf(onHome, offHome, cornersHome, onAway) ==
  ProcessedStats([k \in StatKeys |->
    CASE k = "on_target"  -> <<onHome, onAway>>
      [] k = "off_target" -> <<offHome, Num(0)>>
      [] k = "corners"    -> <<cornersHome, Num(0)>>
      [] OTHER            -> <<Num(0), Num(0)>>])

ChartStats ==
  {StatsOf(Num(0), Num(0), Num(0), Num(0)),
   StatsOf(Num(1), Num(1), Num(0), Num(0)),
   StatsOf(Num(2), Num(1), Num(0), Num(1)),
   StatsOf(Num(20), Num(0), Num(0), Num(20)),
   StatsOf(Num(1), Num(0), NaN, Num(0))}

MomentumFrame ==
  UNCHANGED <<apiVars, parseVars, oddsVars, ledger, slip, pressure, dash, week, predict>>

\* a dashboard is mounted: no stats yet
MomentumInit ==
  /\ \E variant \in ChartVariants :
       momentum = [variant |-> variant,
                   statsHistory |-> EmptyHistory,
                   apiChartData |-> <<>>,
                   tension |-> TensionLevel(variant, <<>>)]
  /\ ledger = Off /\ slip = Off /\ pressure = Off /\ dash = Off /\ week = Off
  /\ predict = Off
  /\ now = StartTime /\ lastApiCallTime = 0 /\ calls = <<>>
  /\ requests = <<>> /\ started = 0
  /\ statsInput = UndefinedStats /\ parsedStats = Unparsed
  /\ oddsHistory = <<>> /\ latestOdds = 0 /\ table = Unmounted

\* a refresh stores the stats of the minute; apiChartData and tensionLevel
\* are recomputed
StoreStats ==
  /\ \E minute \in ChartMinutes(momentum.variant), stats \in ChartStats :
       LET history == [m \in DOMAIN momentum.statsHistory \cup {minute} |->
                         IF m = minute THEN stats ELSE momentum.statsHistory[m]]
           data    == ApiChartDataOf(momentum.variant, history)
       IN momentum' = [momentum EXCEPT
            !.statsHistory = history,
            !.apiChartData = data,
            !.tension = TensionLevel(momentum.variant, data)]
  /\ MomentumFrame

MomentumNext == StoreStats

MomentumSpec == MomentumInit /\ [][MomentumNext]_vars

(***************************************************************************)
(* Claims about the score series and the tension level                     *)
(***************************************************************************)
\* 3.0 * on_target + 1.0 * off_target + 0.7 * corners + 0.1 * dangerous_attacks
WeightedScore(stats, sideIndex) ==
  30 * stats.keys["on_target"][sideIndex].v + 10 * stats.keys["off_target"][sideIndex].v
    + 7 * stats.keys["corners"][sideIndex].v + stats.keys["dangerous_attacks"][sideIndex].v

AllNumbers(stats, sideIndex) ==
  \A k \in ScoreKeys : ~stats.keys[k][sideIndex].nan

\* C25: the score of a side is 3.0 * on_target + 1.0 * off_target + 0.7 *
\* corners + 0.1 * dangerous_attacks and 0 for undefined stats, and every
\* point of a dashboard's score series carries these scores of its minute.
C25_ScoreWeights ==
  /\ momentum.variant \in {"Dashboard.tsx", "part_003"}
       => ScoreOf(momentum.variant, NoStats, 1) = Num(0)
  /\ \A i \in DOMAIN momentum.apiChartData :
       LET p     == momentum.apiChartData[i]
           stats == momentum.statsHistory[p.minute]
       IN /\ AllNumbers(stats, 1) => p.homeApi = Num(WeightedScore(stats, 1))
          /\ AllNumbers(stats, 2) => p.awayApi = Num(WeightedScore(stats, 2))

\* |homeApi - awayApi| of the points of the trailing window
TrailingGaps(variant, data) ==
  LET last == LastPoints(data, TensionParams(variant).window)
  IN [i \in DOMAIN last |-> Abs(last[i].gap)]

\* homeApi + awayApi of the points of the trailing window
TrailingActivity(variant, data) ==
  LET last == LastPoints(data, TensionParams(variant).window)
  IN [i \in DOMAIN last |-> Plus(last[i].homeApi, last[i].awayApi)]

\* C26 as claimed: the tension level is a function of the absolute gaps
\* |homeApi - awayApi| of the trailing window: when a refresh leaves these
\* gaps as they were, the tension level stays as it was.
C26_SameGapsSameTension ==
  [][(/\ momentum.tension.shown
      /\ TrailingGaps(momentum.variant, momentum'.apiChartData)
           = TrailingGaps(momentum.variant, momentum.apiChartData))
       => momentum'.tension = momentum.tension]_vars

\* C26, amended: the tension level is a function of the activity homeApi +
\* awayApi of the points of the trailing window (the last 3, or 5 in
\* part_003b): when a refresh leaves these sums as they were, the tension
\* level stays as it was, whatever the earlier points and the gaps are.
C26_SameActivitySameTension ==
  [][(/\ momentum.tension.shown
      /\ TrailingActivity(momentum.variant, momentum'.apiChartData)
           = TrailingActivity(momentum.variant, momentum.apiChartData))
       => momentum'.tension = momentum.tension]_vars

\* Dashboard.tsx with four points: the first one, outside the window, has
\* both sides at 60.0, the last three have 7.0 against 3.0 each, and the
\* tension level is 10.0 * 3 / 3 * 2.5 = 25
C26_Witness ==
  /\ momentum.variant = "Dashboard.tsx" /\ Len(momentum.apiChartData) = 4
  /\ momentum.apiChartData[1].homeApi = Num(600)
  /\ \A i \in 2..4 : /\ momentum.apiChartData[i].homeApi = Num(70)
                      /\ momentum.apiChartData[i].awayApi = Num(30)
  /\ momentum.tension = Tension(Num(Sixtieths(25)))

\* C27: a tension level lies in [10, 100]; it is 20 while the chart has
\* fewer points than the trailing window, and otherwise the scaled activity
\* of the window, raised to the dashboard's lower bound (10 or 15) and cut
\* at 100.
C27_TensionInRange ==
  momentum.tension.shown =>
    LET par   == TensionParams(momentum.variant)
        level == momentum.tension.level
    IN /\ ~level.nan
       /\ Sixtieths(10) <= level.v /\ level.v <= Sixtieths(100)
       /\ Len(momentum.apiChartData) < par.window => level.v = Sixtieths(20)
       /\ Len(momentum.apiChartData) >= par.window => level.v >= Sixtieths(par.lower)

(***************************************************************************)
(* Dashboard: the refresh loop (handleRefresh on a 45 s interval, cycles   *)
(* may overlap) and the manual AI trigger (fetchAI calling                 *)
(* getGeminiGoalPrediction)                                                *)
(***************************************************************************)
\* what getMatchDetails settles with: null or the event, with its timer
\* minute (0 is falsy) and stats
Details(tm) == [kind |-> "event", tm |-> tm, stats |-> UndefinedStats]
DetailsResults == {Null, Details(0), Details(7)}

\* what getMatchOdds settles with: null or the odds data, whose markets
\* '1_3' and '1_2' are absent or lists of snapshots
Snapshot(timeStr) == [time_str |-> timeStr, handicap |-> "0.5"]
NoMarket     == [listed |-> FALSE, snaps |-> <<>>]
Market(snaps) == [listed |-> TRUE, snaps |-> snaps]
OverMarkets  == {NoMarket, Market(<<>>),
                 Market(<<Snapshot(<<"7">>)>>),
                 Market(<<Snapshot(<<"7">>), Snapshot(<<"7", "0">>)>>),
                 Market(<<Snapshot(<<"7", "0">>), Snapshot(<<"7">>)>>)}
HomeMarkets  == {NoMarket,
                 Market(<<Snapshot(<<"7", "0">>)>>),
                 Market(<<Snapshot(<<"7">>), Snapshot(<<"7", "0">>)>>)}
OddsData(over, home) == [kind |-> "odds", m13 |-> over, m12 |-> home]
OddsResults  == {Null} \cup {OddsData(o, h) : o \in OverMarkets, h \in HomeMarkets}

\* const mapper = (m) => ({ minute: parseInt(m.time_str), ..., handicap })
Mapper(m) == [minute |-> ParseInt(m.time_str), handicap |-> m.handicap]

MapSnaps(snaps) == [i \in DOMAIN snaps |-> Mapper(snaps[i])]

\* if (odds.results?.odds?.[key]) setOddsHistory(odds.results.odds[key].map(mapper))
SetHistory(prev, market) ==
  IF market.listed THEN MapSnaps(market.snaps) ELSE prev

\* the completion the AI endpoint gives
GeminiOutcomes == {"reject", "noText", "notJson", "jsonNull", "insight"}
\* the parsed completion, told apart by its goal_probability
Probabilities == {30, 80}
Insight(p) == [kind |-> "insight", goal_probability |-> p]

\* await ai.models.generateContent(...); JSON.parse(response.text.trim())
GeminiTry(outcome, p) ==
  CASE outcome = "insight"  -> Value(Insight(p))
    [] outcome = "jsonNull" -> Value(Null)
    [] OTHER                -> Thrown

GeminiCatch_Rethrow(tried) == IF tried.kind = "throw" THEN Raised ELSE tried.val

\* catch (error) { return null; }
GeminiCatch(tried) == IF tried.kind = "throw" THEN Null ELSE tried.val

IdleGemini == [pc |-> "idle", sent |-> 0, outcome |-> "none", result |-> Pending]

CycleIds == {1, 2}

DashFrame ==
  UNCHANGED <<apiVars, parseVars, oddsVars, ledger, slip, pressure, week, predict, momentum>>

\* the Dashboard is mounted for a match; process.env.API_KEY is set or not
DashInit ==
  /\ \E key \in BOOLEAN :
       dash = [apiKey |-> key,
               mounted |-> TRUE,
               liveMatch |-> Details(0),
               statsHistory |-> EmptyHistory,
               oddsHistory |-> <<>>,
               homeOddsHistory |-> <<>>,
               isRefreshing |-> FALSE,
               cycles |-> [c \in CycleIds |-> "idle"],
               started |-> 0,
               isAIPredicting |-> FALSE,
               aiInsight |-> Null,
               gemini |-> IdleGemini,
               aiRuns |-> 0]
  /\ ledger = Off /\ slip = Off /\ pressure = Off /\ week = Off
  /\ predict = Off /\ momentum = Off
  /\ now = StartTime /\ lastApiCallTime = 0 /\ calls = <<>>
  /\ requests = <<>> /\ started = 0
  /\ statsInput = UndefinedStats /\ parsedStats = Unparsed
  /\ oddsHistory = <<>> /\ latestOdds = 0 /\ table = Unmounted

StartRefresh_TimerKept(c) ==
  /\ dash.cycles[c] = "idle"
  /\ dash.started < MaxCycles
  /\ dash' = [dash EXCEPT !.isRefreshing = TRUE, !.cycles[c] = "details",
                          !.started = dash.started + 1]
  /\ DashFrame

StartRefresh_Guarded(c) ==
  /\ dash.mounted
  /\ ~dash.isRefreshing
  /\ dash.cycles[c] = "idle"
  /\ dash.started < MaxCycles
  /\ dash' = [dash EXCEPT !.isRefreshing = TRUE, !.cycles[c] = "details",
                          !.started = dash.started + 1]
  /\ DashFrame

\* the mount effect or the interval calls handleRefresh, up to its first await
StartRefresh(c) ==
  /\ dash.mounted
  /\ dash.cycles[c] = "idle"
  /\ dash.started < MaxCycles
  /\ dash' = [dash EXCEPT !.isRefreshing = TRUE, !.cycles[c] = "details",
                          !.started = dash.started + 1]
  /\ DashFrame

\* getMatchDetails settles: handleRefresh up to its second await
DetailsSettle(c) ==
  /\ dash.cycles[c] = "details"
  /\ \E details \in DetailsResults :
       dash' = [dash EXCEPT
         !.liveMatch = IF details = Null THEN dash.liveMatch ELSE details,
         !.statsHistory =
            IF details = Null \/ details.tm = 0 THEN dash.statsHistory
            ELSE [m \in DOMAIN dash.statsHistory \cup {details.tm} |->
                    IF m = details.tm THEN ProcessedStats(ParseStats(details.stats))
                    ELSE dash.statsHistory[m]],
         !.cycles[c] = "odds"]
  /\ DashFrame

\* getMatchOdds settles: the rest of handleRefresh, finally included
OddsSettle(c) ==
  /\ dash.cycles[c] = "odds"
  /\ \E odds \in OddsResults :
       dash' = [dash EXCEPT
         !.oddsHistory = IF odds = Null THEN dash.oddsHistory
                         ELSE SetHistory(dash.oddsHistory, odds.m13),
         !.homeOddsHistory = IF odds = Null THEN dash.homeOddsHistory
                             ELSE SetHistory(dash.homeOddsHistory, odds.m12),
         !.isRefreshing = FALSE,
         !.cycles[c] = "idle"]
  /\ DashFrame

\* the AI button (disabled while isAIPredicting): fetchAI up to its await,
\* getGeminiGoalPrediction up to its return or its await
FetchAI ==
  /\ dash.mounted
  /\ ~dash.isAIPredicting
  /\ dash.aiRuns < MaxAI
  /\ dash' = [dash EXCEPT
       !.isAIPredicting = TRUE,
       !.aiRuns = dash.aiRuns + 1,
       !.gemini = IF ~dash.apiKey
                  THEN [pc |-> "settled", sent |-> 0, outcome |-> "none", result |-> Null]
                  ELSE [pc |-> "awaiting", sent |-> 1, outcome |-> "none", result |-> Pending]]
  /\ DashFrame

\* generateContent settles: the rest of getGeminiGoalPrediction
GeminiSettle ==
  /\ dash.gemini.pc = "awaiting"
  /\ \E outcome \in GeminiOutcomes :
     \E p \in IF outcome = "insight" THEN Probabilities ELSE {0} :
       dash' = [dash EXCEPT !.gemini.pc = "settled", !.gemini.outcome = outcome,
                            !.gemini.result = GeminiCatch(GeminiTry(outcome, p))]
  /\ DashFrame

AIResume_KeepsFirst ==
  /\ dash.gemini.pc = "settled"
  /\ dash.gemini.result.kind # "raised"
  /\ dash' = [dash EXCEPT
       !.aiInsight = IF dash.gemini.result # Null /\ dash.aiInsight = Null
                     THEN dash.gemini.result ELSE dash.aiInsight,
       !.isAIPredicting = FALSE,
       !.gemini.pc = "idle"]
  /\ DashFrame

AIResume_OnlyOnSuccess ==
  /\ dash.gemini.pc = "settled"
  /\ dash.gemini.result.kind # "raised"
  /\ dash' = [dash EXCEPT
       !.aiInsight = IF dash.gemini.result # Null THEN dash.gemini.result ELSE dash.aiInsight,
       !.isAIPredicting = (dash.gemini.result = Null),
       !.gemini.pc = "idle"]
  /\ DashFrame

\* fetchAI resumes after its await (a rejection would skip the rest of it):
\* if (res) setAiInsight(res); setIsAIPredicting(false)
AIResume ==
  /\ dash.gemini.pc = "settled"
  /\ dash.gemini.result.kind # "raised"
  /\ dash' = [dash EXCEPT
       !.aiInsight = IF dash.gemini.result # Null THEN dash.gemini.result ELSE dash.aiInsight,
       !.isAIPredicting = FALSE,
       !.gemini.pc = "idle"]
  /\ DashFrame

\* the effect's cleanup: clearInterval(id); what is in flight goes on
Unmount ==
  /\ dash.mounted
  /\ dash' = [dash EXCEPT !.mounted = FALSE]
  /\ DashFrame

DashNext ==
  \/ \E c \in CycleIds : StartRefresh(c)
  \/ \E c \in CycleIds : DetailsSettle(c)
  \/ \E c \in CycleIds : OddsSettle(c)
  \/ FetchAI
  \/ GeminiSettle
  \/ AIResume
  \/ Unmount

DashSpec == DashInit /\ [][DashNext]_vars

\* a pending completion settles and a settled promise resumes its awaiter
FairDashSpec ==
  /\ DashSpec
  /\ WF_vars(GeminiSettle)
  /\ WF_vars(AIResume)

(***************************************************************************)
(* Claims about the Dashboard                                              *)
(***************************************************************************)
NonDecreasingMinutes(history) ==
  \A i, j \in DOMAIN history :
    i < j => (/\ ~history[i].minute.nan /\ ~history[j].minute.nan
              /\ history[i].minute.v <= history[j].minute.v)

\* C16: in every reachable state oddsHistory and homeOddsHistory are
\* non-decreasing in minute in array order.
C16_HistorySorted ==
  /\ NonDecreasingMinutes(dash.oddsHistory)
  /\ NonDecreasingMinutes(dash.homeOddsHistory)

IsPrefixOf(old, new) ==
  /\ Len(old) <= Len(new)
  /\ \A i \in DOMAIN old : new[i] = old[i]

\* C17: every step keeps the points an odds history already has, in their
\* order, and at most appends to them.
C17_HistoryGrows ==
  [][/\ IsPrefixOf(dash.oddsHistory, dash'.oddsHistory)
     /\ IsPrefixOf(dash.homeOddsHistory, dash'.homeOddsHistory)]_vars

\* C18: getGeminiGoalPrediction never raises; without an API key it gives
\* null and sends nothing; when the request fails or the completion is not
\* valid JSON it gives null.
C18_GeminiNeverRaises ==
  /\ dash.gemini.result.kind # "raised"
  /\ (dash.gemini.pc = "settled" /\ ~dash.apiKey)
       => (dash.gemini.result = Null /\ dash.gemini.sent = 0)
  /\ (dash.gemini.pc = "settled" /\ dash.gemini.outcome \in {"reject", "noText", "notJson"})
       => dash.gemini.result = Null
  /\ dash.gemini.pc = "awaiting" => dash.apiKey

C18_Witness ==
  /\ dash.gemini.pc = "settled" /\ dash.gemini.outcome = "notJson"
  /\ dash.gemini.sent = 1 /\ dash.gemini.result = Null

PollingState(d) ==
  <<d.liveMatch, d.statsHistory, d.oddsHistory, d.homeOddsHistory,
    d.isRefreshing, d.cycles, d.started>>

AIState(d) == <<d.isAIPredicting, d.aiInsight, d.gemini, d.aiRuns>>

\* C19: a step of an AI request leaves liveMatch, statsHistory, the odds
\* histories and the refresh cycles as they are, a refresh can start whether
\* or not an AI request is pending, and isAIPredicting, once true, returns
\* to false whatever the request ends with.
C19_AIBestEffort ==
  /\ [][AIState(dash') # AIState(dash) => PollingState(dash') = PollingState(dash)]_vars
  /\ [](\A c \in CycleIds :
          (dash.mounted /\ dash.cycles[c] = "idle" /\ dash.started < MaxCycles)
            => ENABLED StartRefresh(c))
  /\ (dash.isAIPredicting ~> ~dash.isAIPredicting)

\* an AI request failed while a refresh cycle was under way, and the flag is
\* back to false with no insight stored
C19_Witness ==
  /\ dash.aiRuns > 0 /\ ~dash.isAIPredicting
  /\ dash.gemini.outcome = "reject" /\ dash.aiInsight = Null
  /\ \E c \in CycleIds : dash.cycles[c] = "odds"

\* the positions of a refresh cycle, in the order handleRefresh takes them
NextPosition(pc) ==
  CASE pc = "idle"    -> "details"
    [] pc = "details" -> "odds"
    [] pc = "odds"    -> "idle"

\* C22: a refresh cycle awaits its detail fetch and only then issues its odds
\* fetch, and nothing keeps a cycle from starting while another cycle has a
\* network call pending; such an overlap is reachable.
C22_SequentialNoGuard ==
  /\ [][\A c \in CycleIds :
          dash'.cycles[c] # dash.cycles[c]
            => dash'.cycles[c] = NextPosition(dash.cycles[c])]_vars
  /\ [](\A c, other \in CycleIds :
          (/\ dash.mounted /\ dash.started < MaxCycles
           /\ dash.cycles[c] = "idle" /\ dash.cycles[other] # "idle")
            => ENABLED StartRefresh(c))

\* a new cycle has started and awaits its details while the odds fetch of
\* the previous cycle is still pending
C22_Witness ==
  \E c, other \in CycleIds :
    dash.cycles[c] = "details" /\ dash.cycles[other] = "odds"

\* C23: once the Dashboard is unmounted no refresh cycle starts any more; the
\* unmount itself leaves the cycles in flight where they are, and each of
\* them can still take its next step, up to its completion.
C23_UnmountClearsTimer ==
  /\ [][~dash.mounted =>
          /\ ~dash'.mounted
          /\ dash'.started = dash.started
          /\ \A c \in CycleIds : dash.cycles[c] = "idle" => dash'.cycles[c] = "idle"]_vars
  /\ [][dash'.mounted # dash.mounted => dash'.cycles = dash.cycles]_vars
  /\ [](\A c \in CycleIds :
          /\ dash.cycles[c] = "details" => ENABLED DetailsSettle(c)
          /\ dash.cycles[c] = "odds" => ENABLED OddsSettle(c))

\* after the unmount, with further starts still within the bound, one cycle
\* has moved on to its odds fetch and the other has completed
C23_Witness ==
  /\ ~dash.mounted /\ dash.started < MaxCycles
  /\ \E c \in CycleIds : dash.cycles[c] = "odds"
  /\ \E c \in CycleIds : dash.cycles[c] = "idle"

\* C30: isRefreshing is true exactly while some refresh cycle is in flight,
\* and a step in which one cycle completes while another is still pending
\* leaves the flag set.
C30_FlagWhileInFlight ==
  /\ [](dash.isRefreshing <=> \E c \in CycleIds : dash.cycles[c] # "idle")
  /\ [][\A c \in CycleIds :
          (/\ dash.cycles[c] # "idle" /\ dash'.cycles[c] = "idle"
           /\ \E other \in CycleIds \ {c} : dash'.cycles[other] # "idle")
            => dash'.isRefreshing]_vars

Histories(d) == <<d.statsHistory, d.oddsHistory, d.homeOddsHistory>>

\* Dashboard.tsx: an AI request begins only with the user's press of the AI
\* button; a step of a refresh cycle or of the timer's teardown neither
\* begins one nor touches the insight; the insight changes only when a
\* request resumes with a result, which then takes the place of the insight
\* shown before; and a step of an AI request adds nothing to the stats or
\* odds histories.
DashInsightManualOnly ==
  /\ [][(~dash.isAIPredicting /\ dash'.isAIPredicting) => FetchAI]_vars
  /\ [][(dash'.cycles # dash.cycles \/ dash'.mounted # dash.mounted)
          => AIState(dash') = AIState(dash)]_vars
  /\ [][dash'.aiInsight # dash.aiInsight =>
          /\ dash.isAIPredicting /\ dash.gemini.pc = "settled"
          /\ dash.gemini.result # Null]_vars
  /\ [][(dash.gemini.pc = "settled" /\ dash'.gemini.pc = "idle" /\ dash.gemini.result # Null)
          => dash'.aiInsight = dash.gemini.result]_vars
  /\ [][AIState(dash') # AIState(dash) => Histories(dash') = Histories(dash)]_vars

\* the second request of the user has completed with an insight, which is
\* the one shown, while a refresh cycle awaits its odds
DashInsightReplaced ==
  /\ dash.aiRuns = 2 /\ ~dash.isAIPredicting /\ dash.gemini.pc = "idle"
  /\ dash.gemini.outcome = "insight" /\ dash.aiInsight = Insight(80)
  /\ \E c \in CycleIds : dash.cycles[c] = "odds"

(***************************************************************************)
(* The dashboard of part_002: fetchData on a timer or a button, and the    *)
(* manual AI prediction (runAIPrediction), which pushes what it gets onto  *)
(* analysisHistory and highlights.overUnder                                *)
(*                                                                         *)
(* predict.minute is liveMatch's minute, statsMinutes the keys of          *)
(* statsHistory; request is the pending getGeminiGoalPrediction call with  *)
(* the analysis and the minute its closure holds.                          *)
(***************************************************************************)
\* the minutes getMatchDetails reports (0: no minute yet)
MatchMinutes == {0, 7, 12}
\* prediction.confidence_level: 'thấp' | 'trung bình' | 'cao' | 'rất cao'
ConfidenceLevels == {"thap", "cao"}

\* prev.slice(0, 19)
AnalysisKept == 19

Take(seq, n) == IF Len(seq) <= n THEN seq ELSE SubSeq(seq, 1, n)

\* calculatePreGoalFactors(): null without a current minute
PreGoalFactors(minute) ==
  IF minute = 0 THEN Null ELSE [kind |-> "analysis", minute |-> minute]

\* the level of the highlight runPatternDetection adds, if any
HighlightLevel(aiLevel) ==
  CASE aiLevel = "rat cao"    -> "strong"
    [] aiLevel = "cao"        -> "medium"
    [] aiLevel = "trung binh" -> "weak"
    [] OTHER                  -> "none"

\* runPatternDetection(aiScore, aiLevel) at the minute of its closure
PatternDetection(overUnder, minute, aiScore, aiLevel) ==
  IF minute = 0 \/ minute < 10 \/ HighlightLevel(aiLevel) = "none" THEN overUnder
  ELSE IF \E i \in DOMAIN overUnder :
            /\ overUnder[i].minute = minute
            /\ overUnder[i].level = HighlightLevel(aiLevel)
       THEN overUnder
       ELSE Append(overUnder, [minute |-> minute, level |-> HighlightLevel(aiLevel),
                               label |-> aiScore])

IdleRequest == [pc |-> "idle", analysis |-> Null, result |-> Pending, level |-> "none"]

PredictFrame ==
  UNCHANGED <<apiVars, parseVars, oddsVars, ledger, slip, pressure, dash, week, momentum>>

\* the component is mounted for a match, at the minute the match list gave,
\* with nothing saved for it
PredictInit ==
  /\ \E key \in BOOLEAN, m \in MatchMinutes :
       predict = [apiKey |-> key,
                  minute |-> m,
                  statsMinutes |-> {},
                  fetches |-> 0,
                  isAIPredicting |-> FALSE,
                  aiPrediction |-> Null,
                  analysisHistory |-> <<>>,
                  overUnder |-> <<>>,
                  request |-> IdleRequest,
                  runs |-> 0]
  /\ ledger = Off /\ slip = Off /\ pressure = Off /\ dash = Off /\ week = Off
  /\ momentum = Off
  /\ now = StartTime /\ lastApiCallTime = 0 /\ calls = <<>>
  /\ requests = <<>> /\ started = 0
  /\ statsInput = UndefinedStats /\ parsedStats = Unparsed
  /\ oddsHistory = <<>> /\ latestOdds = 0 /\ table = Unmounted

FetchData_AutoTrigger ==
  /\ predict.fetches < MaxCycles
  /\ \E details \in {Null} \cup {Details(m) : m \in MatchMinutes} :
       predict' = [predict EXCEPT
         !.fetches = predict.fetches + 1,
         !.minute = IF details = Null THEN predict.minute ELSE details.tm,
         !.statsMinutes = IF details = Null THEN predict.statsMinutes
                          ELSE predict.statsMinutes \cup {details.tm},
         !.isAIPredicting = TRUE,
         !.aiPrediction = Null]
  /\ PredictFrame

\* fetchData, from the timer or the refresh button, as one step: the match
\* details arrive or not, and with them the minute and the stats of it
FetchData ==
  /\ predict.fetches < MaxCycles
  /\ \E details \in {Null} \cup {Details(m) : m \in MatchMinutes} :
       predict' = [predict EXCEPT
         !.fetches = predict.fetches + 1,
         !.minute = IF details = Null THEN predict.minute ELSE details.tm,
         !.statsMinutes = IF details = Null THEN predict.statsMinutes
                          ELSE predict.statsMinutes \cup {details.tm}]
  /\ PredictFrame

\* the AI button (disabled while isAIPredicting): runAIPrediction up to its
\* await, or to its end when there is no analysis
RunAIPrediction ==
  /\ ~predict.isAIPredicting
  /\ predict.runs < MaxAI
  /\ LET analysis == PreGoalFactors(predict.minute) IN
     predict' = [predict EXCEPT
       !.runs = predict.runs + 1,
       !.aiPrediction = Null,
       !.isAIPredicting = (analysis # Null),
       !.request =
          IF analysis = Null THEN IdleRequest
          ELSE IF ~predict.apiKey
          THEN [pc |-> "settled", analysis |-> analysis, result |-> Null, level |-> "none"]
          ELSE [pc |-> "awaiting", analysis |-> analysis, result |-> Pending,
                level |-> "none"]]
  /\ PredictFrame

\* generateContent settles: the rest of getGeminiGoalPrediction
PredictionSettle ==
  /\ predict.request.pc = "awaiting"
  /\ \E outcome \in GeminiOutcomes :
     \E p \in IF outcome = "insight" THEN Probabilities ELSE {0} :
     \E level \in IF outcome = "insight" THEN ConfidenceLevels ELSE {"none"} :
       predict' = [predict EXCEPT
         !.request.pc = "settled",
         !.request.result = GeminiCatch(GeminiTry(outcome, p)),
         !.request.level = level]
  /\ PredictFrame

\* runAIPrediction resumes: setAIPrediction(prediction), the pushes when
\* there is a prediction, setIsAIPredicting(false)
PredictionResume ==
  /\ predict.request.pc = "settled"
  /\ predict.request.result.kind # "raised"
  /\ LET prediction == predict.request.result
         analysis   == predict.request.analysis
     IN predict' = [predict EXCEPT
          !.aiPrediction = prediction,
          !.analysisHistory =
             IF prediction = Null THEN predict.analysisHistory
             ELSE <<[minute |-> analysis.minute, reasoning |-> prediction.goal_probability]>>
                    \o Take(predict.analysisHistory, AnalysisKept),
          !.overUnder =
             IF prediction = Null THEN predict.overUnder
             ELSE PatternDetection(predict.overUnder, analysis.minute,
                                   prediction.goal_probability, predict.request.level),
          !.isAIPredicting = FALSE,
          !.request = IdleRequest]
  /\ PredictFrame

PredictNext ==
  \/ FetchData
  \/ RunAIPrediction
  \/ PredictionSettle
  \/ PredictionResume

PredictSpec == PredictInit /\ [][PredictNext]_vars

(***************************************************************************)
(* Claims about the AI insight                                             *)
(***************************************************************************)
InsightState(p) == <<p.isAIPredicting, p.aiPrediction, p.request, p.runs,
                     p.analysisHistory, p.overUnder>>

\* a request begins only with a press of the AI button, a fetch leaves the
\* insight and its request alone, and a request that resumes stores what it
\* got in place of the insight shown before
ManualAndReplacing ==
  /\ [][(predict.request.pc = "idle" /\ predict'.request.pc # "idle")
          => (predict'.runs = predict.runs + 1 /\ predict'.fetches = predict.fetches)]_vars
  /\ [][predict'.fetches # predict.fetches
          => InsightState(predict') = InsightState(predict)]_vars
  /\ [][predict'.aiPrediction # predict.aiPrediction =>
          \/ predict'.runs = predict.runs + 1 /\ predict'.aiPrediction = Null
          \/ /\ predict.request.pc = "settled"
             /\ predict'.aiPrediction = predict.request.result]_vars
  /\ [][(predict.request.pc = "settled" /\ predict'.request.pc = "idle")
          => predict'.aiPrediction = predict.request.result]_vars

MonthLengths == <<31, 30, 31>>
Months       == DOMAIN MonthLengths

RECURSIVE DaysBefore(_)
DaysBefore(m) == IF m = 1 THEN 0 ELSE DaysBefore(m - 1) + MonthLengths[m - 1]

DayNumber(ts) == ts \div 24
GetHours(ts)  == ts % 24
\* getMonth(), as a position in Months
GetMonth(ts)  ==
  CHOOSE m \in Months :
    DaysBefore(m) <= DayNumber(ts) /\ DayNumber(ts) < DaysBefore(m) + MonthLengths[m]
GetDate(ts)   == DayNumber(ts) - DaysBefore(GetMonth(ts)) + 1
\* getDay(): 0 is Sunday
GetDay(ts)    == (4 + DayNumber(ts)) % 7

\* new Date(year, month, date): midnight of that day, counted from the
\* first of the month, before or after which the date may fall
MakeDate(m, date) == (DaysBefore(m) + date - 1) * 24
\* now.setDate(date): the day changes, the time of day stays
SetDate(ts, date) == MakeDate(GetMonth(ts), date) + GetHours(ts)
\* setHours(0, 0, 0, 0)
SetHoursZero(ts)  == MakeDate(GetMonth(ts), GetDate(ts))

WeekDiff_SundayAsMonday(date, dayOfWeek) == date - dayOfWeek + 1

\* now.getDate() - dayOfWeek + (dayOfWeek === 0 ? -6 : 1)
WeekDiff(date, dayOfWeek) == date - dayOfWeek + (IF dayOfWeek = 0 THEN 0 - 6 ELSE 1)

\* the three period starts; BetHistory.tsx ("setDate") moves now to the
\* week's Monday before it computes the month start, part_006 ("construct")
\* leaves now alone
PeriodStarts(variant, nowTs) ==
  LET startOfToday == MakeDate(GetMonth(nowTs), GetDate(nowTs))
      diff         == WeekDiff(GetDate(nowTs), GetDay(nowTs))
      nowAfter     == IF variant = "setDate" THEN SetDate(nowTs, diff) ELSE nowTs
      startOfWeek  == IF variant = "setDate" THEN SetHoursZero(nowAfter)
                      ELSE SetHoursZero(MakeDate(GetMonth(nowTs), diff))
      startOfMonth == MakeDate(GetMonth(nowAfter), 1)
  IN [day |-> startOfToday, week |-> startOfWeek, month |-> startOfMonth]

\* new Date(ticket.createdAt || parseInt(ticket.id)): a missing createdAt is
\* 0, an id is a number or not one
TicketDate(t) == IF t.createdAt # 0 THEN Num(t.createdAt) ELSE t.id

RECURSIVE KeepFrom(_, _)
KeepFrom(tickets, start) ==
  IF tickets = <<>> THEN <<>>
  ELSE LET d == TicketDate(Head(tickets)) IN
       IF ~d.nan /\ d.v >= start
       THEN <<Head(tickets)>> \o KeepFrom(Tail(tickets), start)
       ELSE KeepFrom(Tail(tickets), start)

\* filteredTickets
FilteredTickets(variant, nowTs, tickets, filter) ==
  LET starts == PeriodStarts(variant, nowTs) IN
  CASE filter = "day"   -> KeepFrom(tickets, starts.day)
    [] filter = "week"  -> KeepFrom(tickets, starts.week)
    [] filter = "month" -> KeepFrom(tickets, starts.month)

FilterPeriods == {"day", "week", "month"}
Variants      == {"setDate", "construct"}
\* the present: 09:00 or 23:00 of a day from 1 June to 13 July
NowSamples    == {d * 24 + h : d \in 31..73, h \in {9, 23}}
\* creation times: 00:00 or 23:00 of a day from 24 May to 13 July
CreatedTimes  == {d * 24 + h : d \in 23..73, h \in {0, 23}}
WeekTickets   ==
  {[createdAt |-> c, id |-> Num(c)] : c \in CreatedTimes}
    \cup {[createdAt |-> 0, id |-> Num(c)] : c \in {60 * 24, 60 * 24 - 1}}
    \cup {[createdAt |-> 0, id |-> NaN]}

WeekFrame ==
  UNCHANGED <<apiVars, parseVars, oddsVars, ledger, slip, pressure, dash, predict, momentum>>

\* BetHistory has loaded a ticket and rendered with the default filter
WeekInit ==
  /\ \E v \in Variants, n \in NowSamples, t \in WeekTickets :
       week = [variant |-> v, now |-> n, allTickets |-> <<t>>, filter |-> "day",
               filteredTickets |-> FilteredTickets(v, n, <<t>>, "day")]
  /\ ledger = Off /\ slip = Off /\ pressure = Off /\ dash = Off
  /\ predict = Off /\ momentum = Off
  /\ now = StartTime /\ lastApiCallTime = 0 /\ calls = <<>>
  /\ requests = <<>> /\ started = 0
  /\ statsInput = UndefinedStats /\ parsedStats = Unparsed
  /\ oddsHistory = <<>> /\ latestOdds = 0 /\ table = Unmounted

\* a filter button: setFilter(period) and the recomputation
SetFilter ==
  /\ \E period \in FilterPeriods :
       week' = [week EXCEPT
         !.filter = period,
         !.filteredTickets = FilteredTickets(week.variant, week.now, week.allTickets, period)]
  /\ WeekFrame

WeekNext == SetFilter

WeekSpec == WeekInit /\ [][WeekNext]_vars

(***************************************************************************)
(* Claims about the period filters                                         *)
(***************************************************************************)
\* 00:00 of the Monday on or before the day of ts
MondayStart(ts) ==
  LET today  == ts \div 24
      monday == CHOOSE d \in (today - 6)..today : (4 + d) % 7 = 1
  IN monday * 24

CreatedAtOrAfter(tickets, start) ==
  {i \in DOMAIN tickets :
     /\ ~TicketDate(tickets[i]).nan
     /\ TicketDate(tickets[i]).v >= start}

\* C20: under the 'week' filter the listed tickets are exactly those created
\* at or after 00:00 of the Monday that starts the current week (six days
\* back on a Sunday), also when that Monday lies in the previous month.
C20_WeekFilter ==
  week.filter = "week" =>
    LET kept == CreatedAtOrAfter(week.allTickets, MondayStart(week.now)) IN
    /\ Len(week.filteredTickets) = Cardinality(kept)
    /\ \A i \in DOMAIN week.allTickets :
         i \in kept <=> (\E j \in DOMAIN week.filteredTickets :
                           week.filteredTickets[j] = week.allTickets[i])

\* Sunday 6 July, 23:00: the ticket of Monday 30 June, 00:00 is listed
C20_Witness ==
  /\ week.filter = "week" /\ week.now = 66 * 24 + 23
  /\ week.allTickets = <<[createdAt |-> 60 * 24, id |-> Num(60 * 24)]>>
  /\ week.filteredTickets = week.allTickets

\* 00:00 of the first day of the calendar month of ts
MonthStart(ts) == MakeDate(GetMonth(ts), 1)

\* C21: under the 'month' filter the listed tickets are exactly those created
\* at or after 00:00 of the first day of the current calendar month, on every
\* date, also when the current week started in the previous month.
C21_MonthFilter ==
  week.filter = "month" =>
    LET kept == CreatedAtOrAfter(week.allTickets, MonthStart(week.now)) IN
    /\ Len(week.filteredTickets) = Cardinality(kept)
    /\ \A i \in DOMAIN week.allTickets :
         i \in kept <=> (\E j \in DOMAIN week.filteredTickets :
                           week.filteredTickets[j] = week.allTickets[i])

====
